---- MODULE Spec2Model ----
(***************************************************************************)
(* Model of xmlfileutils/scripts/pageslogging2sql.py: LoggingXml.write_sql *)
(* and LoggingXml.do_log_item, the line-by-line transcoder of a            *)
(* pages-logging dump into INSERT statements.                              *)
(*                                                                         *)
(* Text.  A Python string is a sequence of tokens.  A token is one         *)
(* character of free text (" ", "\n", ":", "'", ...) or one markup lexeme  *)
(* of the dump ("<id>", "</comment>", ...).  The regular expressions of    *)
(* LoggingXml.__init__ and the substring tests of do_log_item are computed *)
(* on these sequences.                                                     *)
(*                                                                         *)
(* Input.  xml_file is the dump, a sequence of lines, and pos the number   *)
(* of lines fd has handed out; readline() returns the empty string once    *)
(* the file is exhausted.  Iteration (skip_header) and readline() share    *)
(* one position, as they do for the gzip streams the dumps are shipped as. *)
(* Init draws the dump from Dumps: the dumps rendered from small lists of  *)
(* log items in the documented format, and those dumps with one line       *)
(* replaced, or cut short.                                                 *)
(*                                                                         *)
(* Steps.  do_log_item is cut at its readline() calls: the action named    *)
(* after source line n is "the readline() of line n and the code that      *)
(* follows it up to the next readline()".                                  *)
(***************************************************************************)
EXTENDS Integers, Sequences, FiniteSets, TLC

\* ------------------------------------------------------------------ bounds
\* tokens of a string handed to un_xml_escape and sql_escape on their own
MaxLen == 3
\* lines of a side file handed to get_titles_dict on its own
MaxLines == 3
\* log items one dump holds at most
MaxRecords == 2
\* physical lines one <comment> or <params> element spans at most
MaxSpan == 2
\* entries a wiki holds for one query at most
MaxEntries == 3
\* the largest batch size an Entries object is given
MaxBatch == 2
\* the largest max_retries an Entries object is given
MaxRetries == 2
\* calls of write_sql made on one LoggingXml object at most
MaxRuns == 2
\* files handed to combine_xml at most
MaxFiles == 2
\* pages one of these files holds at most
MaxBody == 1

\* ------------------------------------------------------------------ tokens
SP == " "
NL == "\n"
CONTRIBUTOR_DELETED == "<contributor deleted=\"deleted\" />"
COMMENT_DELETED == "<comment deleted=\"deleted\" />"
TEXT_DELETED == "<text deleted=\"deleted\" />"
PARAMS_OPEN == "<params xml:space=\"preserve\">"
NO_PARAMS == "<params xml:space=\"preserve\" />"

\* \s of the patterns
IsSpace(t) == t \in {SP, NL}

\* the needles of do_log_item's substring tests that occur inside one token
Needles(t) ==
  CASE t = CONTRIBUTOR_DELETED -> {"<contributor deleted"}
    [] t = COMMENT_DELETED -> {"<comment deleted"}
    [] t = TEXT_DELETED -> {"<text deleted"}
    [] t = PARAMS_OPEN -> {"<params"}
    [] t = NO_PARAMS -> {"<params"}
    [] t = "</mediawiki>" -> {"</mediawiki"}
    [] OTHER -> {t}

\* Python: needle in line
Contains(line, needle) == \E i \in 1..Len(line) : needle \in Needles(line[i])

Min(S) == CHOOSE x \in S : \A y \in S : x <= y
Max(S) == CHOOSE x \in S : \A y \in S : y <= x
NonWs(s) == {i \in 1..Len(s) : ~IsSpace(s[i])}

\* ^\s*OPEN(?P<g>.+)CLOSE\s*\n$ ; dotall: "." also matches "\n"
MatchElement(s, open, close, dotall) ==
  /\ NonWs(s) # {}
  /\ LET i == Min(NonWs(s))
         j == Max(NonWs(s))
     IN  /\ s[i] = open
         /\ s[j] = close
         /\ j > i + 1
         /\ j < Len(s)
         /\ s[Len(s)] = NL
         /\ dotall \/ \A k \in (i + 1)..(j - 1) : s[k] # NL

\* the named group of a matched element (greedy: up to the last CLOSE)
Group(s) == SubSeq(s, Min(NonWs(s)) + 1, Max(NonWs(s)) - 1)

\* ^\s*TAG\s*\n$
MatchTag(s, tag) ==
  /\ Cardinality(NonWs(s)) = 1
  /\ LET i == Min(NonWs(s))
     IN  s[i] = tag /\ i < Len(s) /\ s[Len(s)] = NL

\* ^\s*TAG\n$  ($ also matches before a final newline)
MatchTagNoTrail(s, tag) ==
  /\ Cardinality(NonWs(s)) = 1
  /\ LET i == Min(NonWs(s))
     IN  s[i] = tag /\ SubSeq(s, i + 1, Len(s)) \in {<<NL>>, <<NL, NL>>}

compiled_logitem_pattern(line) == MatchTag(line, "<logitem>")
compiled_id_pattern(line) == MatchElement(line, "<id>", "</id>", FALSE)
compiled_timestamp_pattern(line) ==
  MatchElement(line, "<timestamp>", "</timestamp>", FALSE)
compiled_contributor_pattern(line) == MatchTagNoTrail(line, "<contributor>")
compiled_username_pattern(line) ==
  MatchElement(line, "<username>", "</username>", FALSE)
compiled_end_contributor_pattern(line) == MatchTagNoTrail(line, "</contributor>")
\* the comment pattern compiled without re.DOTALL
compiled_comment_pattern_NoDotall(line) ==
  MatchElement(line, "<comment>", "</comment>", FALSE)
compiled_comment_pattern(line) ==
  MatchElement(line, "<comment>", "</comment>", TRUE)
compiled_type_pattern(line) == MatchElement(line, "<type>", "</type>", FALSE)
compiled_action_pattern(line) == MatchElement(line, "<action>", "</action>", FALSE)
compiled_logtitle_pattern(line) ==
  MatchElement(line, "<logtitle>", "</logtitle>", FALSE)
compiled_params_pattern(line) == MatchElement(line, PARAMS_OPEN, "</params>", TRUE)
\* the self-closed form is not recognised
compiled_no_params_pattern_Never(line) == FALSE
compiled_no_params_pattern(line) == MatchTag(line, NO_PARAMS)
compiled_end_logitem_pattern(line) == MatchTag(line, "</logitem>")
\* the opening tag of the header taken for its end as well
compiled_end_header_pattern_Open(line) ==
  NonWs(line) # {} /\ line[Min(NonWs(line))] \in {"<siteinfo>", "</siteinfo>"}
\* ^\s*</siteinfo>  (match: anchored at the start only)
compiled_end_header_pattern(line) ==
  NonWs(line) # {} /\ line[Min(NonWs(line))] = "</siteinfo>"

\* line 183, as an anchored pattern like the others
top_level_closed_Anchored(line) == MatchTag(line, "</mediawiki>")
\* line 183: "</mediawiki" in line
top_level_closed(line) == Contains(line, "</mediawiki")

\* line 203, never true
contributor_deleted_Never(line) == FALSE
\* line 203: "<contributor deleted" in line
contributor_deleted(line) == Contains(line, "<contributor deleted")

\* line 232, true of every line without <comment>
comment_deleted_Always(line) == TRUE
\* line 232, never true
comment_deleted_Never(line) == FALSE
\* line 232: "<comment deleted" in line
comment_deleted(line) == Contains(line, "<comment deleted")

\* line 258, never true
text_deleted_Never(line) == FALSE
\* line 258: "<text deleted" in line
text_deleted(line) == Contains(line, "<text deleted")

\* ------------------------------------------------------------------- codec
\* str.replace(old, new): leftmost occurrences, not overlapping
RECURSIVE Replace(_, _, _)
Replace(s, old, new) ==
  IF Len(s) < Len(old) THEN s
  ELSE IF SubSeq(s, 1, Len(old)) = old
       THEN new \o Replace(SubSeq(s, Len(old) + 1, Len(s)), old, new)
       ELSE <<Head(s)>> \o Replace(Tail(s), old, new)

\* un_xml_escape with &amp; decoded first
un_xml_escape_AmpFirst(title) ==
  LET t0 == Replace(title, <<"&", "amp;">>, <<"&">>)
      t1 == Replace(t0, <<"&", "quot;">>, <<"\"">>)
      t2 == Replace(t1, <<"&", "lt;">>, <<"<">>)
      t3 == Replace(t2, <<"&", "gt;">>, <<">">>)
  IN  Replace(t3, <<"&", "#039;">>, <<"'">>)
\* an entity "&name;" is the two tokens "&", "name;"
un_xml_escape(title) ==
  LET t1 == Replace(title, <<"&", "quot;">>, <<"\"">>)
      t2 == Replace(t1, <<"&", "lt;">>, <<"<">>)
      t3 == Replace(t2, <<"&", "gt;">>, <<">">>)
      t4 == Replace(t3, <<"&", "#039;">>, <<"'">>)
  IN  Replace(t4, <<"&", "amp;">>, <<"&">>)

\* sql_escape with the backslashes doubled after the quotes are escaped
sql_escape_BackslashLast(string, underscores) ==
  LET s1 == Replace(string, <<"'">>, <<"\\", "'">>)
      s2 == Replace(s1, <<"\"">>, <<"\\", "\"">>)
      s3 == Replace(s2, <<"\\">>, <<"\\", "\\">>)
      s4 == IF underscores THEN Replace(s3, <<SP>>, <<"_">>) ELSE s3
  IN  <<"'">> \o s4 \o <<"'">>
sql_escape(string, underscores) ==
  LET s1 == Replace(string, <<"\\">>, <<"\\", "\\">>)
      s2 == Replace(s1, <<"'">>, <<"\\", "'">>)
      s3 == Replace(s2, <<"\"">>, <<"\\", "\"">>)
      s4 == IF underscores THEN Replace(s3, <<SP>>, <<"_">>) ELSE s3
  IN  <<"'">> \o s4 \o <<"'">>

\* string.translate(self.all, self.nodigs): delete every non-digit
Digits == {"0", "1", "2", "3", "4", "5", "6", "7", "8", "9"}
\* the timestamp as it stands in the dump
Translate_Identity(s) == s
Translate(s) == SelectSeq(s, LAMBDA c : c \in Digits)

\* ------------------------------------------------------------ Python values
\* dict keys compare by type and value: the str "1" is not the int 1
PyStr(s) == [t |-> "str", v |-> s]
PyInt(s) == [t |-> "int", v |-> s]

\* str.find(c): index of the first occurrence, 0 when there is none (-1 in Python)
Find(s, c) ==
  IF \E i \in 1..Len(s) : s[i] = c
  THEN Min({i \in 1..Len(s) : s[i] = c})
  ELSE 0

\* str.split(' ', n): at most n splits at single spaces
RECURSIVE Split(_, _)
Split(s, n) ==
  IF n = 0 \/ Find(s, SP) = 0 THEN <<s>>
  ELSE <<SubSeq(s, 1, Find(s, SP) - 1)>>
         \o Split(SubSeq(s, Find(s, SP) + 1, Len(s)), n - 1)

\* int(ns) accepts a digit string; the value has no leading zeros
IsInt(ns) == ns # <<>> /\ \A i \in 1..Len(ns) : ns[i] \in Digits
RECURSIVE IntOf(_)
IntOf(ns) == IF Len(ns) > 1 /\ Head(ns) = "0" THEN IntOf(Tail(ns)) ELSE ns

\* ------------------------------------------------------------- TitlesDict
\* t with t[title][ns] = pageid
DictPut(t, title, ns, pageid) ==
  IF title \in DOMAIN t
  THEN [t EXCEPT ![title] =
          [k \in DOMAIN t[title] \cup {ns} |->
             IF k = ns THEN pageid ELSE t[title][k]]]
  ELSE [k \in DOMAIN t \cup {title} |->
          IF k = title THEN [n \in {ns} |-> pageid] ELSE t[k]]

RECURSIVE TitlesLoop(_, _)
TitlesLoop(lines, t) ==
  IF lines = <<>> THEN [raised |-> "", t |-> t]
  ELSE LET parts == Split(Head(lines), 3)
       IN  IF Len(parts) # 3 \/ ~IsInt(parts[2])
           THEN [raised |-> "ValueError", t |-> <<>>]
           ELSE TitlesLoop(Tail(lines),
                           DictPut(t, parts[3], PyInt(IntOf(parts[2])), parts[1]))

\* the dict returned, or the ValueError raised by the unpacking or by int()
get_titles_dict(sql_file) == TitlesLoop(sql_file, <<>>)

\* ------------------------------------------------------------------ inputs
\* readline() at end of file
EOF == <<>>

\* the physical lines of a text: cut after every "\n"
RECURSIVE SplitLines(_)
SplitLines(s) ==
  IF s = <<>> THEN <<>>
  ELSE IF Find(s, NL) = 0 THEN <<s>>
       ELSE <<SubSeq(s, 1, Find(s, NL))>>
              \o SplitLines(SubSeq(s, Find(s, NL) + 1, Len(s)))

\* a text of k physical lines (k - 1 embedded newlines)
RECURSIVE Multi(_, _)
Multi(c, k) == IF k <= 1 THEN <<c>> ELSE Multi(c, k - 1) \o <<NL, c>>

Element(open, text, close) == <<open>> \o text \o <<close, NL>>

TimestampText == <<"2", "-", "0", "T", "5", "Z">>

\* a log item in the documented format (the comment above do_log_item), with
\* the variants do_log_item accepts: contributor or comment or title
\* "deleted", comment or params absent, params self-closed
ContributorText(c) ==
  IF c.deleted THEN <<SP, CONTRIBUTOR_DELETED, NL>>
  ELSE <<"<contributor>", NL>>
         \o Element("<username>", c.username, "</username>")
         \o Element("<id>", c.id, "</id>")
         \o <<"</contributor>", NL>>

CommentText(c) ==
  CASE c.form = "absent" -> <<>>
    [] c.form = "deleted" -> <<COMMENT_DELETED, NL>>
    [] c.form = "text" -> Element("<comment>", c.text, "</comment>")

LogtitleText(t) ==
  IF t.form = "deleted" THEN <<TEXT_DELETED, NL>>
  ELSE Element("<logtitle>", t.text, "</logtitle>")

ParamsText(p) ==
  CASE p.form = "absent" -> <<>>
    [] p.form = "empty" -> <<NO_PARAMS, NL>>
    [] p.form = "text" -> Element(PARAMS_OPEN, p.text, "</params>")

ItemText(it) ==
  <<SP, "<logitem>", NL>>
    \o Element("<id>", it.logid, "</id>")
    \o Element("<timestamp>", TimestampText, "</timestamp>")
    \o ContributorText(it.contributor)
    \o CommentText(it.comment)
    \o Element("<type>", <<"t">>, "</type>")
    \o Element("<action>", <<"a">>, "</action>")
    \o LogtitleText(it.logtitle)
    \o ParamsText(it.params)
    \o <<SP, "</logitem>", NL>>

RECURSIVE ItemsText(_)
ItemsText(its) ==
  IF its = <<>> THEN <<>> ELSE ItemText(Head(its)) \o ItemsText(Tail(its))

\* the dump of a list of log items: site header, items, closing tag
DumpLines(its) ==
  SplitLines(<<"<siteinfo>", NL, SP, "</siteinfo>", NL>>
               \o ItemsText(its) \o <<"</mediawiki>", NL>>)

Contributors ==
  {[deleted |-> TRUE, username |-> <<>>, id |-> <<>>]}
    \cup [deleted : {FALSE}, username : {<<"u">>}, id : {<<"1">>, <<"2">>}]
    \cup {[deleted |-> FALSE, username |-> <<"v">>, id |-> <<"2">>]}

CommentForms ==
  {[form |-> "absent", text |-> <<>>], [form |-> "deleted", text |-> <<>>]}
    \cup {[form |-> "text", text |-> Multi("c", k)] : k \in 1..MaxSpan}

LogtitleForms ==
  {[form |-> "deleted", text |-> <<>>]}
    \cup [form : {"text"}, text : {<<"P">>, <<"N", ":", "P">>}]

ParamsForms ==
  {[form |-> "absent", text |-> <<>>], [form |-> "empty", text |-> <<>>]}
    \cup {[form |-> "text", text |-> Multi("p", k)] : k \in 1..MaxSpan}

\* every variant of one log item
Items ==
  [logid : {<<"1">>, <<"2">>}, contributor : Contributors,
   comment : CommentForms, logtitle : LogtitleForms, params : ParamsForms]

\* the items of the dumps that hold several: a full item or a suppressed one
FullItem(it) ==
  /\ it.comment = [form |-> "text", text |-> <<"c">>]
  /\ it.logtitle = [form |-> "text", text |-> <<"P">>]
  /\ it.params = [form |-> "text", text |-> <<"p">>]
BareItem(it) ==
  /\ it.comment.form = "deleted"
  /\ it.logtitle.form = "deleted"
  /\ it.params.form = "empty"
CoreItems == {it \in Items : FullItem(it) \/ BareItem(it)}

RECURSIVE ListsOf(_, _)
ListsOf(S, n) ==
  IF n = 0 THEN {<<>>}
  ELSE ListsOf(S, n - 1)
         \cup {Append(l, x) : l \in {m \in ListsOf(S, n - 1) : Len(m) = n - 1}, x \in S}

\* titles with several colons, with a known and an unknown prefix, with a
\* space, an entity and a quote, and the title the side file lists under 14
RichTitles ==
  { <<"N", ":", "N", ":", "P", SP, "&", "amp;", "'">>,
    <<"X", ":", "N", ":", "R">>,
    <<"N", ":", "Q">> }

\* items whose free text holds spaces
RichItems ==
  [logid : {<<"1">>},
   contributor : {[deleted |-> FALSE, username |-> <<"u", SP, "w">>, id |-> <<"2">>]},
   comment : {[form |-> "text", text |-> <<"c", SP, "d">>]},
   logtitle : [form : {"text"}, text : RichTitles],
   params : {[form |-> "text", text |-> <<"p", SP, "q">>]}]

ItemLists ==
  {<<it>> : it \in Items \cup RichItems} \cup ListsOf(CoreItems, MaxRecords)

\* lines that may stand where another line is expected
LineSet ==
  { <<"</siteinfo>", NL>>,
    <<SP, "<logitem>", NL>>,
    <<"<id>", "1", "</id>", NL>>,
    <<"<id>", "</id>", NL>>,
    <<"<timestamp>", "2", "-", "0", "T", "5", "Z", "</timestamp>", NL>>,
    <<"<timestamp>", "1", "9", ":", "3", "</timestamp>", NL>>,
    <<"<contributor>", NL>>,
    <<"<contributor>", SP, NL>>,
    <<SP, CONTRIBUTOR_DELETED, NL>>,
    <<"<username>", "u", "</username>", NL>>,
    <<"</contributor>", NL>>,
    <<"<comment>", "c", "</comment>", NL>>,
    <<"<comment>", "c", "</comment>", "x", NL>>,
    <<"<comment>", "c", NL>>,
    <<"d", "</comment>", NL>>,
    <<COMMENT_DELETED, NL>>,
    <<"<type>", "t", "</type>", NL>>,
    <<"<action>", "a", "</action>", NL>>,
    <<"<logtitle>", "P", "</logtitle>", NL>>,
    <<TEXT_DELETED, NL>>,
    <<NO_PARAMS, NL>>,
    <<PARAMS_OPEN, "p", "</params>", NL>>,
    <<PARAMS_OPEN, "p", NL>>,
    <<"q", "</params>", NL>>,
    <<"q", "</params>", "x", NL>>,
    <<"</logitem>", NL>>,
    <<"</mediawiki>", NL>>,
    <<"x", "</mediawiki>", NL>>,
    <<"x", NL>> }

\* the dumps whose lines are replaced or cut: one with a full and a
\* suppressed item, one with an item that has neither comment nor params
CanonLists ==
  { << [logid |-> <<"1">>,
        contributor |-> [deleted |-> FALSE, username |-> <<"u">>, id |-> <<"2">>],
        comment |-> [form |-> "text", text |-> Multi("c", 2)],
        logtitle |-> [form |-> "text", text |-> <<"P">>],
        params |-> [form |-> "text", text |-> Multi("p", 2)]],
       [logid |-> <<"2">>,
        contributor |-> [deleted |-> TRUE, username |-> <<>>, id |-> <<>>],
        comment |-> [form |-> "deleted", text |-> <<>>],
        logtitle |-> [form |-> "deleted", text |-> <<>>],
        params |-> [form |-> "empty", text |-> <<>>]] >>,
    << [logid |-> <<"1">>,
        contributor |-> [deleted |-> FALSE, username |-> <<"u">>, id |-> <<"1">>],
        comment |-> [form |-> "absent", text |-> <<>>],
        logtitle |-> [form |-> "text", text |-> <<"P">>],
        params |-> [form |-> "absent", text |-> <<>>]] >> }

\* d with line i replaced by b
ReplaceLine(d, i, b) == [d EXCEPT ![i] = b]

\* a rendered dump with one line replaced by another, or cut short
BrokenDumps(its) ==
  LET d == DumpLines(its)
  IN  {[lines |-> ReplaceLine(d, i, b), items |-> its, broken |-> TRUE] :
         i \in 1..Len(d), b \in LineSet}
        \cup {[lines |-> SubSeq(d, 1, i), items |-> its, broken |-> TRUE] :
                i \in 0..(Len(d) - 1)}

Dumps ==
  {[lines |-> DumpLines(its), items |-> its, broken |-> FALSE] : its \in ItemLists}
    \cup {x \in UNION {BrokenDumps(its) : its \in CanonLists} :
            x.lines # DumpLines(x.items)}

\* the side files of --sqlfile: "pageid ns title" lines
SideFiles ==
  { << <<"8", SP, "1", "4", SP, "'", "Q", "'", NL>>,
       <<"7", SP, "0", SP, "'", "P", "'">> >> }

\* nstitle => nsnum as do_main builds it: the nsnum are the keys of the
\* API's JSON object, strings
NsDicts ==
  { [n \in {<<>>, <<"N">>} |->
       IF n = <<>> THEN PyStr(<<"0">>) ELSE PyStr(<<"1", "4">>)] }

\* the strings un_xml_escape and sql_escape are applied to on their own
CodecTokens ==
  {"&", "amp;", "lt;", "gt;", "quot;", "#039;", "'", "\"", "\\", SP, "a"}
Strings == UNION {[1..n -> CodecTokens] : n \in 0..MaxLen}

\* lines of a side file: well formed, with a pair listed twice and a title
\* under two namespaces, and malformed: two spaces between fields, a
\* namespace that is no number, two fields, four fields, an empty title
SideLineSet ==
  { <<"7", SP, "0", SP, "'", "P", "'", NL>>,
    <<"8", SP, "0", SP, "'", "P", "'", NL>>,
    <<"9", SP, "1", "4", SP, "'", "P", "'", NL>>,
    <<"7", SP, SP, "0", SP, "'", "P", "'", NL>>,
    <<"7", SP, "x", SP, "'", "P", "'", NL>>,
    <<"7", SP, "0", NL>>,
    <<"7", SP, "0", SP, "'", "P", "'", SP, "'", "Q", "'", NL>>,
    <<"7", SP, "0", SP, NL>> }

\* f with the newline of its last line dropped
Unterminated(f) ==
  [f EXCEPT ![Len(f)] = SubSeq(f[Len(f)], 1, Len(f[Len(f)]) - 1)]

\* side files of up to MaxLines lines; only the last line may lack its newline
SideFilesAlone ==
  LET whole == UNION {[1..n -> SideLineSet] : n \in 0..MaxLines}
  IN  whole \cup {Unterminated(f) : f \in whole \ {<<>>}}

\* ------------------------------------------------------------------- state
VARIABLES
  pc,                 \* position in write_sql / do_log_item
  xml_file,           \* the lines of the dump
  pos,                \* lines of xml_file that fd has handed out
  items,              \* the log items xml_file was rendered from
  broken,             \* xml_file is a rendered dump with a line replaced or cut
  line,               \* the local "line" while an element is being gathered
  logid, timestamp, username, userid, comment, type, action, logtitle, params,
  user_dict,          \* keys of self.user_dict
  user_out_file,      \* --userout was given
  sql_file,           \* the lines of the side file titles_dict was built from
  ns_dict_by_string, titles_dict,
  codec_in,           \* the argument of a codec function called on its own,
  codec_flag,         \* its underscores flag,
  codec_out,          \* and what it returned
  logout, userout,    \* statements written to logout_fd / userout_fd
  fds,                \* open file handles
  err,                \* the exception that ended the run
  linked, sql_escaped,   \* Entries: -l and -s as given to the constructor
  batch_size, max_retries,
  wiki,               \* the entries the wiki holds for the query, in order
  more,               \* self.more
  continue_from,      \* self.continue_from: entries already served, 0 for None
  lagged,             \* self.wiki_conn.lagged
  retries,            \* self.retries
  requests,           \* geturl calls made by the running get_batch_entries
  failed,             \* a geturl call of the run returned None
  entries,            \* the list get_batch_entries returned last
  output,             \* lines written to self.output_fd
  titles,             \* Content: the batch of title lines handed over
  pages,              \* the "pages" parameter of the export request
  contents,           \* what geturl returned last, what a function is given
  stripped,           \* what strip_site_header_and_footer returned
  runs,               \* calls of write_sql made on the LoggingXml object
  prev_userout,       \* what the call before this one left in the user file
  path_list,          \* combine_xml: the input files, each its lines
  file_i,             \* its i, the files done
  in_header,          \* its in_header
  in_pos,             \* lines the input file being read has handed out
  combined,           \* lines written to out_fd
  related_file,       \* add_related_titles_from_file: the lines of the file
  ns_dict,            \* Titles.ns_dict: nsnum => name
  related_ns_list, ns_list,
  title_list,         \* Titles.list
  title_dict          \* Titles.dict: title => set of the namespaces it has

frame == <<logid, timestamp, username, userid, comment, type, action, logtitle, params>>
codec == <<codec_in, codec_flag, codec_out>>
fetcher == <<titles, pages, contents, stripped>>
retriever ==
  <<linked, sql_escaped, batch_size, max_retries, wiki, more, continue_from,
    lagged, retries, requests, failed, entries, output, fetcher>>
tools ==
  <<path_list, file_i, in_header, in_pos, combined, related_file, ns_dict,
    related_ns_list, ns_list, title_list, title_dict>>
config ==
  <<xml_file, items, broken, user_out_file, sql_file, ns_dict_by_string,
    titles_dict, codec, retriever, runs, prev_userout, tools>>
out == <<logout, userout, user_dict>>
vars == <<pc, pos, line, frame, config, out, fds, err>>

NoErr == [type |-> "none", expected |-> "", found |-> <<>>]

\* neither combine_xml nor a Titles object is at work
NoTools ==
  /\ path_list = <<>> /\ file_i = 0 /\ in_header = TRUE /\ in_pos = 0
  /\ combined = <<>>
  /\ related_file = <<>> /\ ns_dict = <<>>
  /\ related_ns_list = {} /\ ns_list = {}
  /\ title_list = <<>> /\ title_dict = <<>>

\* write_sql has not been called on the object before
FirstRun == runs = 1 /\ prev_userout = <<>>

\* no Content object is at work
NoFetcher ==
  /\ titles = <<>> /\ pages = <<>>
  /\ contents = <<>> /\ stripped = <<>>

\* no title retriever has been constructed
NoRetriever ==
  /\ linked = FALSE /\ sql_escaped = FALSE
  /\ batch_size = 1 /\ max_retries = 0
  /\ wiki = <<>>
  /\ more = "None" /\ continue_from = 0
  /\ lagged = FALSE /\ retries = 0 /\ requests = 0
  /\ failed = FALSE
  /\ entries = <<>>
  /\ output = <<>>
  /\ NoFetcher

Init ==
  /\ pc = "start"
  /\ \E d \in Dumps :
       /\ xml_file = d.lines
       /\ items = d.items
       /\ broken = d.broken
  /\ pos = 0
  /\ line = <<>>
  /\ logid = <<>> /\ timestamp = <<>> /\ username = <<>> /\ userid = <<>>
  /\ comment = <<>> /\ type = <<>> /\ action = <<>> /\ logtitle = <<>>
  /\ params = <<>>
  /\ user_dict = {}
  /\ user_out_file \in BOOLEAN
  /\ ns_dict_by_string \in NsDicts
  /\ \E f \in SideFiles :
       /\ sql_file = f
       /\ get_titles_dict(f).raised = ""
       /\ titles_dict = get_titles_dict(f).t
  /\ codec_in = <<>> /\ codec_flag = TRUE /\ codec_out = <<>>
  /\ logout = <<>> /\ userout = <<>>
  /\ fds = {}
  /\ err = NoErr
  /\ NoRetriever
  /\ FirstRun
  /\ NoTools

\* ------------------------------------------------------------ step helpers
\* what the next readline() returns
NextLine == IF pos < Len(xml_file) THEN xml_file[pos + 1] ELSE EOF

\* the call frame of do_log_item is gone (return or exception)
ClearFrame ==
  /\ line' = <<>>
  /\ logid' = <<>> /\ timestamp' = <<>> /\ username' = <<>> /\ userid' = <<>>
  /\ comment' = <<>> /\ type' = <<>> /\ action' = <<>> /\ logtitle' = <<>>
  /\ params' = <<>>

\* fd.readline(): the position moves on unless the file is exhausted
readline ==
  pos' = IF pos < Len(xml_file) THEN pos + 1 ELSE pos

\* the bad line is skipped and the run goes on with the next log item
raise_Resync(expected, found) ==
  /\ pc' = "L180"
  /\ ClearFrame
  /\ UNCHANGED <<config, out, fds, err>>

\* the fields read so far are written out before the error is raised
raise_WritesPartial(expected, found) ==
  /\ pc' = "error"
  /\ err' = [type |-> "WikiContentErr", expected |-> expected, found |-> found]
  /\ logout' = Append(logout, [table |-> "logging", columns |-> <<"log_id">>,
                               values |-> <<logid>>])
  /\ ClearFrame
  /\ UNCHANGED <<config, userout, user_dict, fds>>

\* raise WikiContentErr("bad line in logging file, expected E, found <L>"):
\* nothing catches it, the run is over
raise(expected, found) ==
  /\ pc' = "error"
  /\ err' = [type |-> "WikiContentErr", expected |-> expected, found |-> found]
  /\ ClearFrame
  /\ UNCHANGED <<config, out, fds>>

\* go on to the readline() of source line p
goto(p) ==
  /\ pc' = p
  /\ UNCHANGED <<config, out, fds, err>>

\* ----------------------------------------------------- lines 292-354: emit
PARAMS_EXPECTED == "<params  xml:space=\"preserve\" />"

LoggingColumns ==
  <<"log_id", "log_type", "log_action", "log_timestamp", "log_user",
    "log_user_text", "log_namespace", "log_title", "log_page", "log_comment",
    "log_params", "log_deleted">>

UserColumns ==
  <<"user_id", "user_name", "user_real_name", "user_password",
    "user_newpassword", "user_newpass_time", "user_email", "user_touched",
    "user_token", "user_email_authenticated", "user_email_token",
    "user_email_token_expires", "user_registration", "user_editcount">>

Quoted(s) == <<"'">> \o s \o <<"'">>

\* self.titles_dict[pagetitle][nsnum], "NULL" for an unknown title; a title
\* known under other namespaces only is a KeyError
Lookup(pagetitle, nsnum) ==
  IF pagetitle \in DOMAIN titles_dict
  THEN IF nsnum \in DOMAIN titles_dict[pagetitle]
       THEN [ok |-> TRUE, pageid |-> titles_dict[pagetitle][nsnum]]
       ELSE [ok |-> FALSE, pageid |-> <<>>]
  ELSE [ok |-> TRUE, pageid |-> <<"NULL">>]

\* lines 292-316 with the title cut at its last colon (rfind)
Resolve_LastColon(lt) ==
  LET sep == IF \E i \in 1..Len(lt) : lt[i] = ":"
             THEN Max({i \in 1..Len(lt) : lt[i] = ":"}) ELSE 0
      prefix == SubSeq(lt, 1, sep - 1)
      known == sep # 0 /\ prefix \in DOMAIN ns_dict_by_string
      pagetitle == IF known
                   THEN sql_escape(un_xml_escape(SubSeq(lt, sep + 1, Len(lt))), TRUE)
                   ELSE sql_escape(un_xml_escape(lt), TRUE)
      nsnum == IF known THEN ns_dict_by_string[prefix] ELSE PyInt(<<"0">>)
      found == Lookup(pagetitle, nsnum)
  IN  [ok |-> found.ok, pagetitle |-> pagetitle, nsnum |-> nsnum,
       pageid |-> found.pageid]

\* lines 292-316 with an unknown prefix dropped and the rest cut again
RECURSIVE Resolve_Resplit(_)
Resolve_Resplit(lt) ==
  LET sep == Find(lt, ":")
      prefix == SubSeq(lt, 1, sep - 1)
      known == sep # 0 /\ prefix \in DOMAIN ns_dict_by_string
      pagetitle == IF known
                   THEN sql_escape(un_xml_escape(SubSeq(lt, sep + 1, Len(lt))), TRUE)
                   ELSE sql_escape(un_xml_escape(lt), TRUE)
      nsnum == IF known THEN ns_dict_by_string[prefix] ELSE PyInt(<<"0">>)
      found == Lookup(pagetitle, nsnum)
  IN  IF sep # 0 /\ ~known
      THEN Resolve_Resplit(SubSeq(lt, sep + 1, Len(lt)))
      ELSE [ok |-> found.ok, pagetitle |-> pagetitle, nsnum |-> nsnum,
            pageid |-> found.pageid]

\* lines 292-316: logtitle into pageid, namespace, title without prefix
Resolve(lt) ==
  LET sep == Find(lt, ":")
      prefix == SubSeq(lt, 1, sep - 1)
      known == sep # 0 /\ prefix \in DOMAIN ns_dict_by_string
      pagetitle == IF known
                   THEN sql_escape(un_xml_escape(SubSeq(lt, sep + 1, Len(lt))), TRUE)
                   ELSE sql_escape(un_xml_escape(lt), TRUE)
      nsnum == IF known THEN ns_dict_by_string[prefix] ELSE PyInt(<<"0">>)
      found == Lookup(pagetitle, nsnum)
  IN  [ok |-> found.ok, pagetitle |-> pagetitle, nsnum |-> nsnum,
       pageid |-> found.pageid]

\* lines 334-336 with type and action in each other's place
LoggingRow_Swapped(c, p, r) ==
  [table |-> "logging", columns |-> LoggingColumns,
   values |-> <<logid, Quoted(action), Quoted(type), Quoted(Translate(timestamp)),
                userid, sql_escape(un_xml_escape(username), FALSE),
                r.nsnum.v, r.pagetitle, r.pageid,
                sql_escape(un_xml_escape(c), FALSE),
                sql_escape(un_xml_escape(p), FALSE), <<"0">> >>]

\* lines 318-337 with sql_escape left to its default underscores=True
LoggingRow_Underscores(c, p, r) ==
  [table |-> "logging", columns |-> LoggingColumns,
   values |-> <<logid, Quoted(type), Quoted(action), Quoted(Translate(timestamp)),
                userid, sql_escape(un_xml_escape(username), TRUE),
                r.nsnum.v, r.pagetitle, r.pageid,
                sql_escape(un_xml_escape(c), TRUE),
                sql_escape(un_xml_escape(p), TRUE), <<"0">> >>]

\* lines 318-337
LoggingRow(c, p, r) ==
  [table |-> "logging", columns |-> LoggingColumns,
   values |-> <<logid, Quoted(type), Quoted(action), Quoted(Translate(timestamp)),
                userid, sql_escape(un_xml_escape(username), FALSE),
                r.nsnum.v, r.pagetitle, r.pageid,
                sql_escape(un_xml_escape(c), FALSE),
                sql_escape(un_xml_escape(p), FALSE), <<"0">> >>]

\* lines 340-350
UserRow ==
  [table |-> "user", columns |-> UserColumns,
   values |-> <<userid, sql_escape(un_xml_escape(username), FALSE),
                <<"'", "'">>, <<"'", "'">>, <<"'", "'">>, <<"NULL">>,
                <<"'", "'">>, <<"'20010101000000'">>,
                <<"'6f9b27b447a7fd49bc525e51cc82320b'">>,
                <<"NULL">>, <<"NULL">>, <<"NULL">>, <<"NULL">>, <<"0">> >>]

\* line 339 without the user_out_file test
UserIsNew_Unconfigured == PyStr(userid) \notin user_dict
\* line 339 without the user_dict test
UserIsNew_Always == user_out_file
\* line 339: the test that guards the user row
UserIsNew == user_out_file /\ PyStr(userid) \notin user_dict

\* lines 292-354 with the logging row written under the test of line 339
Emit_RowIfNew(c, p) ==
  LET r == Resolve(logtitle)
  IN  /\ r.ok
      /\ logout' = IF UserIsNew THEN Append(logout, LoggingRow(c, p, r)) ELSE logout
      /\ userout' = IF UserIsNew THEN Append(userout, UserRow) ELSE userout
      /\ user_dict' = IF UserIsNew
                      THEN user_dict \cup {PyStr(userid)}
                      ELSE user_dict
      /\ pc' = "L180"
      /\ ClearFrame
      /\ UNCHANGED <<config, fds, err>>

\* lines 292-354 without line 352: the user id is not entered in user_dict
Emit_NoMark(c, p) ==
  LET r == Resolve(logtitle)
  IN  /\ r.ok
      /\ logout' = Append(logout, LoggingRow(c, p, r))
      /\ userout' = IF UserIsNew THEN Append(userout, UserRow) ELSE userout
      /\ user_dict' = user_dict
      /\ pc' = "L180"
      /\ ClearFrame
      /\ UNCHANGED <<config, fds, err>>

\* lines 292-354, with comment c and params p: write the rows, return False
Emit(c, p) ==
  LET r == Resolve(logtitle)
  IN  IF ~r.ok
      THEN /\ pc' = "error"
           /\ err' = [type |-> "KeyError", expected |-> "", found |-> <<>>]
           /\ ClearFrame
           /\ UNCHANGED <<config, out, fds>>
      ELSE /\ logout' = Append(logout, LoggingRow(c, p, r))
           /\ userout' = IF UserIsNew THEN Append(userout, UserRow) ELSE userout
           /\ user_dict' = IF UserIsNew
                           THEN user_dict \cup {PyStr(userid)}
                           ELSE user_dict
           /\ pc' = "L180"
           /\ ClearFrame
           /\ UNCHANGED <<config, fds, err>>

\* lines 244-247, with comment c: the line at hand must be <type>
TypeStep(l, c) ==
  IF ~compiled_type_pattern(l) THEN raise("<type>", l)
  ELSE /\ type' = Group(l)
       /\ comment' = c
       /\ line' = <<>>
       /\ goto("L249")
       /\ UNCHANGED <<logid, timestamp, username, userid, action, logtitle, params>>

\* lines 288-354, with params p: the line at hand must be </logitem>
EndStep(l, p) ==
  IF ~compiled_end_logitem_pattern(l) THEN raise("</logitem>", l)
  ELSE Emit(comment, p)

\* ----------------------------------------------------------------- actions
\* write_sql, lines 357-363: fresh user_dict, open the three files
write_sql ==
  /\ pc = "start"
  /\ pc' = "header"
  /\ user_dict' = {PyInt(<<"1">>)}
  /\ fds' = {"fd", "logout_fd"} \cup (IF user_out_file THEN {"userout_fd"} ELSE {})
  /\ UNCHANGED <<pos, line, frame, config, logout, userout, err>>

\* skip_header, lines 125-128 and 364-365: one turn of "for line in fd"
skip_header ==
  /\ pc = "header"
  /\ LET l == NextLine IN
       /\ readline
       /\ IF l = EOF
          THEN /\ pc' = "error"
               /\ err' = [type |-> "WikiContentErr",
                          expected |-> "mediawiki/siteinfo header", found |-> <<>>]
          ELSE /\ pc' = IF compiled_end_header_pattern(l) THEN "L180" ELSE "header"
               /\ UNCHANGED err
  /\ UNCHANGED <<line, frame, config, out, fds>>

\* lines 180-186, and 369-373 when do_log_item returns True
L180 ==
  /\ pc = "L180"
  /\ LET l == NextLine IN
       /\ readline
       /\ IF compiled_logitem_pattern(l)
          THEN /\ goto("L188")
               /\ UNCHANGED <<line, frame>>
          ELSE IF top_level_closed(l)
               THEN /\ pc' = "done"
                    /\ fds' = {}
                    /\ UNCHANGED <<line, frame, config, out, err>>
               ELSE raise("<logitem>", l)

\* lines 188-192
L188 ==
  /\ pc = "L188"
  /\ LET l == NextLine IN
       /\ readline
       /\ IF ~compiled_id_pattern(l) THEN raise("<id>", l)
          ELSE /\ logid' = Group(l)
               /\ goto("L194")
               /\ UNCHANGED <<line, timestamp, username, userid, comment, type,
                              action, logtitle, params>>

\* lines 194-198
L194 ==
  /\ pc = "L194"
  /\ LET l == NextLine IN
       /\ readline
       /\ IF ~compiled_timestamp_pattern(l) THEN raise("<timestamp>", l)
          ELSE /\ timestamp' = Group(l)
               /\ goto("L200")
               /\ UNCHANGED <<line, logid, username, userid, comment, type,
                              action, logtitle, params>>

\* lines 200-208
L200 ==
  /\ pc = "L200"
  /\ LET l == NextLine IN
       /\ readline
       /\ IF compiled_contributor_pattern(l)
          THEN /\ goto("L210")
               /\ UNCHANGED <<line, frame>>
          ELSE IF ~contributor_deleted(l)
               THEN raise("<contributor>", l)
               ELSE /\ username' = <<>>
                    /\ userid' = <<"0">>
                    /\ goto("L229")
                    /\ UNCHANGED <<line, logid, timestamp, comment, type, action,
                                   logtitle, params>>

\* lines 210-215
L210 ==
  /\ pc = "L210"
  /\ LET l == NextLine IN
       /\ readline
       /\ IF ~compiled_username_pattern(l) THEN raise("<username>", l)
          ELSE /\ username' = Group(l)
               /\ goto("L217")
               /\ UNCHANGED <<line, logid, timestamp, userid, comment, type,
                              action, logtitle, params>>

\* lines 217-221
L217 ==
  /\ pc = "L217"
  /\ LET l == NextLine IN
       /\ readline
       /\ IF ~compiled_id_pattern(l) THEN raise("<id>", l)
          ELSE /\ userid' = Group(l)
               /\ goto("L223")
               /\ UNCHANGED <<line, logid, timestamp, username, comment, type,
                              action, logtitle, params>>

\* lines 223-227
L223 ==
  /\ pc = "L223"
  /\ LET l == NextLine IN
       /\ readline
       /\ IF ~compiled_end_contributor_pattern(l) THEN raise("</contributor>", l)
          ELSE /\ goto("L229")
               /\ UNCHANGED <<line, frame>>

\* lines 229-232, 234-236, 238-241 and 244-247
L229 ==
  /\ pc = "L229"
  /\ LET l == NextLine IN
       /\ readline
       /\ IF ~Contains(l, "<comment>")
          THEN IF comment_deleted(l)
               THEN /\ goto("L233")
                    /\ UNCHANGED <<line, frame>>
               ELSE TypeStep(l, <<>>)
          ELSE IF ~Contains(l, "</comment>")
               THEN /\ line' = l
                    /\ goto("L237")
                    /\ UNCHANGED frame
               ELSE IF ~compiled_comment_pattern(l) THEN raise("<comment>", l)
                    ELSE /\ comment' = Group(l)
                         /\ goto("L242")
                         /\ UNCHANGED <<line, logid, timestamp, username, userid,
                                        type, action, logtitle, params>>

\* lines 233-234 and 244-247
L233 ==
  /\ pc = "L233"
  /\ LET l == NextLine IN
       /\ readline
       /\ TypeStep(l, <<>>)

\* lines 236-241: one turn of the while loop
L237 ==
  /\ pc = "L237"
  /\ LET l == NextLine IN
       /\ readline
       /\ IF ~Contains(line \o l, "</comment>")
          THEN /\ line' = line \o l
               /\ goto("L237")
               /\ UNCHANGED frame
          ELSE IF ~compiled_comment_pattern(line \o l)
               THEN raise("<comment>", line \o l)
               ELSE /\ comment' = Group(line \o l)
                    /\ line' = <<>>
                    /\ goto("L242")
                    /\ UNCHANGED <<logid, timestamp, username, userid, type,
                                   action, logtitle, params>>

\* lines 242 and 244-247
L242 ==
  /\ pc = "L242"
  /\ LET l == NextLine IN
       /\ readline
       /\ TypeStep(l, comment)

\* lines 249-253
L249 ==
  /\ pc = "L249"
  /\ LET l == NextLine IN
       /\ readline
       /\ IF ~compiled_action_pattern(l) THEN raise("<action>", l)
          ELSE /\ action' = Group(l)
               /\ goto("L255")
               /\ UNCHANGED <<line, logid, timestamp, username, userid, comment,
                              type, logtitle, params>>

\* lines 255-264
L255 ==
  /\ pc = "L255"
  /\ LET l == NextLine IN
       /\ readline
       /\ IF ~compiled_logtitle_pattern(l) /\ ~text_deleted(l)
          THEN raise("<logtitle>", l)
          ELSE /\ logtitle' = IF compiled_logtitle_pattern(l) THEN Group(l) ELSE <<>>
               /\ goto("L266")
               /\ UNCHANGED <<line, logid, timestamp, username, userid, comment,
                              type, action, params>>

\* lines 266-270, 273-275, 277-283, 285-286 and 288-354
L266 ==
  /\ pc = "L266"
  /\ LET l == NextLine IN
       /\ readline
       /\ IF compiled_no_params_pattern(l)
          THEN /\ params' = <<>>
               /\ goto("L271")
               /\ UNCHANGED <<line, logid, timestamp, username, userid, comment,
                              type, action, logtitle>>
          ELSE IF Contains(l, "<params")
               THEN IF ~Contains(l, "</params>")
                    THEN /\ line' = l
                         /\ goto("L276")
                         /\ UNCHANGED frame
                    ELSE IF ~compiled_params_pattern(l)
                         THEN raise(PARAMS_EXPECTED, l)
                         ELSE /\ params' = Group(l)
                              /\ goto("L284")
                              /\ UNCHANGED <<line, logid, timestamp, username,
                                             userid, comment, type, action,
                                             logtitle>>
               ELSE EndStep(l, <<>>)

\* lines 271 and 288-354
L271 ==
  /\ pc = "L271"
  /\ LET l == NextLine IN
       /\ readline
       /\ EndStep(l, params)

\* lines 275-283: one turn of the while loop
L276 ==
  /\ pc = "L276"
  /\ LET l == NextLine IN
       /\ readline
       /\ IF ~Contains(line \o l, "</params>")
          THEN /\ line' = line \o l
               /\ goto("L276")
               /\ UNCHANGED frame
          ELSE IF ~compiled_params_pattern(line \o l)
               THEN raise(PARAMS_EXPECTED, line \o l)
               ELSE /\ params' = Group(line \o l)
                    /\ line' = <<>>
                    /\ goto("L284")
                    /\ UNCHANGED <<logid, timestamp, username, userid, comment,
                                   type, action, logtitle>>

\* lines 284 and 288-354
L284 ==
  /\ pc = "L284"
  /\ LET l == NextLine IN
       /\ readline
       /\ EndStep(l, params)

Next ==
  \/ write_sql
  \/ skip_header
  \/ L180 \/ L188 \/ L194 \/ L200 \/ L210 \/ L217 \/ L223
  \/ L229 \/ L233 \/ L237 \/ L242
  \/ L249 \/ L255
  \/ L266 \/ L271 \/ L276 \/ L284

Spec == Init /\ [][Next]_vars

\* ------------------------------- write_sql called again on the same object
\* lx.write_sql() after a completed lx.write_sql(), lines 357-363: user_dict
\* is kept from the call before
write_sql_again_KeepSeen ==
  /\ pc = "done"
  /\ runs < MaxRuns
  /\ runs' = runs + 1
  /\ prev_userout' = userout
  /\ pc' = "header"
  /\ user_dict' = user_dict
  /\ fds' = {"fd", "logout_fd"} \cup (IF user_out_file THEN {"userout_fd"} ELSE {})
  /\ pos' = 0
  /\ logout' = <<>>
  /\ userout' = <<>>
  /\ UNCHANGED <<line, frame, xml_file, items, broken, user_out_file, sql_file,
                 ns_dict_by_string, titles_dict, codec, retriever, err, tools>>

\* lx.write_sql() after a completed lx.write_sql(), lines 357-363: a new
\* user_dict, the input opened anew and the outputs opened with "w"
write_sql_again ==
  /\ pc = "done"
  /\ runs < MaxRuns
  /\ runs' = runs + 1
  /\ prev_userout' = userout
  /\ pc' = "header"
  /\ user_dict' = {PyInt(<<"1">>)}
  /\ fds' = {"fd", "logout_fd"} \cup (IF user_out_file THEN {"userout_fd"} ELSE {})
  /\ pos' = 0
  /\ logout' = <<>>
  /\ userout' = <<>>
  /\ UNCHANGED <<line, frame, xml_file, items, broken, user_out_file, sql_file,
                 ns_dict_by_string, titles_dict, codec, retriever, err, tools>>

NextAgain == Next \/ write_sql_again

SpecAgain == Init /\ [][NextAgain]_vars

\* ------------------------------------- the codec functions on their own
InitCodec ==
  /\ pc = "codec"
  /\ codec_in \in Strings
  /\ codec_flag \in BOOLEAN
  /\ codec_out = <<>>
  /\ xml_file = <<>> /\ items = <<>> /\ broken = FALSE /\ pos = 0
  /\ line = <<>>
  /\ logid = <<>> /\ timestamp = <<>> /\ username = <<>> /\ userid = <<>>
  /\ comment = <<>> /\ type = <<>> /\ action = <<>> /\ logtitle = <<>>
  /\ params = <<>>
  /\ user_dict = {}
  /\ user_out_file = FALSE
  /\ sql_file = <<>>
  /\ ns_dict_by_string = <<>>
  /\ titles_dict = <<>>
  /\ logout = <<>> /\ userout = <<>>
  /\ fds = {}
  /\ err = NoErr
  /\ NoRetriever
  /\ FirstRun
  /\ NoTools

\* title = self.un_xml_escape(title)
call_un_xml_escape ==
  /\ pc = "codec"
  /\ pc' = "un_xml_escape"
  /\ codec_out' = un_xml_escape(codec_in)
  /\ UNCHANGED <<codec_in, codec_flag, xml_file, items, broken, user_out_file,
                 sql_file, ns_dict_by_string, titles_dict, pos, line, frame,
                 out, fds, err, retriever, runs, prev_userout, tools>>

\* string = self.sql_escape(string, underscores)
call_sql_escape ==
  /\ pc = "codec"
  /\ pc' = "sql_escape"
  /\ codec_out' = sql_escape(codec_in, codec_flag)
  /\ UNCHANGED <<codec_in, codec_flag, xml_file, items, broken, user_out_file,
                 sql_file, ns_dict_by_string, titles_dict, pos, line, frame,
                 out, fds, err, retriever, runs, prev_userout, tools>>

\* self.sql_escape(self.un_xml_escape(x), underscores), as lines 297-320 do
call_sql_escape_un_xml_escape ==
  /\ pc = "un_xml_escape"
  /\ pc' = "sql_escape(un_xml_escape)"
  /\ codec_out' = sql_escape(codec_out, codec_flag)
  /\ UNCHANGED <<codec_in, codec_flag, xml_file, items, broken, user_out_file,
                 sql_file, ns_dict_by_string, titles_dict, pos, line, frame,
                 out, fds, err, retriever, runs, prev_userout, tools>>

NextCodec ==
  \/ call_un_xml_escape
  \/ call_sql_escape
  \/ call_sql_escape_un_xml_escape

SpecCodec == InitCodec /\ [][NextCodec]_vars

\* ------------------------------------------ get_titles_dict on its own
InitTitles ==
  /\ pc = "titles"
  /\ sql_file \in SideFilesAlone
  /\ titles_dict = <<>>
  /\ ns_dict_by_string \in NsDicts
  /\ codec_in = <<>> /\ codec_flag = TRUE /\ codec_out = <<>>
  /\ xml_file = <<>> /\ items = <<>> /\ broken = FALSE /\ pos = 0
  /\ line = <<>>
  /\ logid = <<>> /\ timestamp = <<>> /\ username = <<>> /\ userid = <<>>
  /\ comment = <<>> /\ type = <<>> /\ action = <<>> /\ logtitle = <<>>
  /\ params = <<>>
  /\ user_dict = {}
  /\ user_out_file = FALSE
  /\ logout = <<>> /\ userout = <<>>
  /\ fds = {}
  /\ err = NoErr
  /\ NoRetriever
  /\ FirstRun
  /\ NoTools

\* do_main, line 475: titles_dict = td.get_titles_dict(sql_file); the
\* ValueError is not caught and nothing is assigned
do_main_L475 ==
  /\ pc = "titles"
  /\ IF get_titles_dict(sql_file).raised = ""
     THEN /\ titles_dict' = get_titles_dict(sql_file).t
          /\ pc' = "titles_built"
          /\ err' = err
     ELSE /\ titles_dict' = titles_dict
          /\ pc' = "error"
          /\ err' = [type |-> "ValueError", expected |-> "", found |-> <<>>]
  /\ UNCHANGED <<sql_file, ns_dict_by_string, codec, xml_file, items, broken,
                 user_out_file, pos, line, frame, out, fds, retriever,
                 runs, prev_userout, tools>>

NextTitles == do_main_L475

SpecTitles == InitTitles /\ [][NextTitles]_vars

\* --------------------------------- wikiretriever.py: Entries.get_all_entries
\* Entries.sql_escape, lines 446-450: spaces always become underscores
Entries_sql_escape(title) ==
  LET t1 == Replace(title, <<"\\">>, <<"\\", "\\">>)
      t2 == Replace(t1, <<"'">>, <<"\\", "'">>)
      t3 == Replace(t2, <<"\"">>, <<"\\", "\"">>)
      t4 == Replace(t3, <<SP>>, <<"_">>)
  IN  <<"'">> \o t4 \o <<"'">>

\* desanitize with &amp; decoded first
desanitize_AmpFirst(title) ==
  LET t0 == Replace(title, <<"&", "amp;">>, <<"&">>)
      t1 == Replace(t0, <<"&", "quot;">>, <<"\"">>)
      t2 == Replace(t1, <<"&", "lt;">>, <<"<">>)
      t3 == Replace(t2, <<"&", "gt;">>, <<">">>)
  IN  Replace(t3, <<"&", "#039;">>, <<"'">>)
\* Entries.desanitize, lines 459-464
desanitize(title) ==
  LET t1 == Replace(title, <<"&", "quot;">>, <<"\"">>)
      t2 == Replace(t1, <<"&", "lt;">>, <<"<">>)
      t3 == Replace(t2, <<"&", "gt;">>, <<">">>)
      t4 == Replace(t3, <<"&", "#039;">>, <<"'">>)
  IN  Replace(t4, <<"&", "amp;">>, <<"&">>)

\* " ".join(e)
RECURSIVE Join(_)
Join(e) ==
  IF e = <<>> THEN <<>>
  ELSE IF Len(e) = 1 THEN e[1] ELSE e[1] \o <<SP>> \o Join(Tail(e))

\* lines 490-496: the line written for one entry
EntryLine(e, lnk, esc) ==
  LET e1 == IF lnk THEN [e EXCEPT ![1] = <<"[[">> \o e[1] \o <<"]]">>] ELSE e
  IN  (IF esc
       THEN Join([i \in 1..Len(e1) |-> Entries_sql_escape(e1[i])])
       ELSE Join(e1)) \o <<NL>>

\* write_entry_info, lines 481-496: the lines it writes to output_fd
write_entry_info(es, lnk, esc) ==
  [i \in 1..Len(es) |-> EntryLine(es[i], lnk, esc)]

\* what a request can meet: an exception, or a status and a body
Responses ==
  { [status |-> 0, body |-> <<>>],
    [status |-> 200, body |-> <<"<api>">>],
    [status |-> 200, body |-> <<"<api>", "<error code=\"maxlag\"">>],
    [status |-> 200, body |-> <<"<api>", "<error code=\"readapidenied\"">>],
    [status |-> 503, body |-> <<"Waiting for a database server: 5 ", "seconds lagged">>],
    [status |-> 503, body |-> <<"seconds lagged">>],
    [status |-> 503, body |-> <<"Service Unavailable">>],
    [status |-> 500, body |-> <<"Internal Server Error">>] }

\* contents.find(sub), in tokens: where sub starts, -1 when it is not there
find(body, sub) ==
  IF \E i \in 1..Len(body) : body[i] = sub
  THEN (CHOOSE i \in 1..Len(body) :
          body[i] = sub /\ \A j \in 1..(i - 1) : body[j] # sub) - 1
  ELSE -1

\* self.error_pattern.search(contents).group(1), "" without a match
error_code(body) ==
  IF \E i \in 1..Len(body) : body[i] = "<error code=\"maxlag\"" THEN "maxlag"
  ELSE IF \E i \in 1..Len(body) : body[i] = "<error code=\"readapidenied\""
       THEN "readapidenied"
       ELSE ""

\* WikiConnection.geturl, lines 55-101: self.lagged and the value returned
geturl(resp) ==
  IF resp.status = 0
  THEN [lagged |-> FALSE, none |-> TRUE, contents |-> <<>>]
  ELSE IF resp.status # 200
  THEN IF resp.status = 503 /\ find(resp.body, "seconds lagged") # 0
       THEN [lagged |-> TRUE, none |-> FALSE, contents |-> resp.body]
       ELSE [lagged |-> FALSE, none |-> TRUE, contents |-> <<>>]
  ELSE IF error_code(resp.body) = "maxlag"
  THEN [lagged |-> TRUE, none |-> FALSE, contents |-> resp.body]
  ELSE IF error_code(resp.body) # ""
  THEN [lagged |-> FALSE, none |-> TRUE, contents |-> <<>>]
  ELSE [lagged |-> FALSE, none |-> FALSE, contents |-> resp.body]

\* the entries a wiki serves: attribute lists, the title first, as sanitized
\* in the XML of the answer
ServedEntries ==
  { << <<"a">> >>,
    << <<"a", SP, "&", "#039;", "a">> >>,
    << <<"a", SP, "a">>, <<"0">> >> }
Wikis == UNION {[1..n -> ServedEntries] : n \in 0..MaxEntries}

\* the answer to a query continued from entry c: up to batch_size entries,
\* and a continue element while there are more
Batch(c) == SubSeq(wiki, c + 1, IF c + batch_size < Len(wiki) THEN c + batch_size ELSE Len(wiki))
HasContinue(c) == c + batch_size < Len(wiki)

\* extract_items_from_xml, lines 528-530
extract_items_from_xml(tree) ==
  [i \in 1..Len(tree) |-> [a \in 1..Len(tree[i]) |-> desanitize(tree[i][a])]]

transcoder ==
  <<pos, line, frame, out, xml_file, items, broken, user_out_file, sql_file,
    ns_dict_by_string, titles_dict, codec, runs, prev_userout, tools>>

InitEntries ==
  /\ pc = "get_all_entries"
  /\ linked \in BOOLEAN /\ sql_escaped \in BOOLEAN
  /\ batch_size \in 1..MaxBatch
  /\ max_retries \in 0..MaxRetries
  /\ wiki \in Wikis
  /\ more = "None" /\ continue_from = 0
  /\ lagged = FALSE /\ retries = 0 /\ requests = 0
  /\ failed = FALSE
  /\ entries = <<>>
  /\ output = <<>>
  /\ NoFetcher
  /\ xml_file = <<>> /\ items = <<>> /\ broken = FALSE /\ pos = 0
  /\ line = <<>>
  /\ logid = <<>> /\ timestamp = <<>> /\ username = <<>> /\ userid = <<>>
  /\ comment = <<>> /\ type = <<>> /\ action = <<>> /\ logtitle = <<>>
  /\ params = <<>>
  /\ user_dict = {}
  /\ user_out_file = FALSE
  /\ sql_file = <<>>
  /\ ns_dict_by_string = <<>>
  /\ titles_dict = <<>>
  /\ codec_in = <<>> /\ codec_flag = TRUE /\ codec_out = <<>>
  /\ logout = <<>> /\ userout = <<>>
  /\ fds = {}
  /\ err = NoErr
  /\ FirstRun
  /\ NoTools

\* get_all_entries, lines 503-517, into get_batch_entries up to line 570
get_all_entries ==
  /\ pc = "get_all_entries"
  /\ more' = "True"
  /\ fds' = fds \cup {"output_fd"}
  /\ retries' = 0
  /\ requests' = 0
  /\ pc' = "L571"
  /\ UNCHANGED <<linked, sql_escaped, batch_size, max_retries, wiki,
                 continue_from, lagged, failed, entries, output, fetcher, transcoder, err>>

\* get_batch_entries, lines 571-585 and, out of the loop, 587-612: one turn
\* of the retry loop
L571_request ==
  /\ pc = "L571"
  /\ retries < max_retries
  /\ \E resp \in Responses :
       LET r1 == IF lagged THEN retries + 1 ELSE retries
           g == geturl(resp)
       IN  /\ lagged' = g.lagged
           /\ failed' = (failed \/ g.none)
           /\ retries' = r1
           /\ requests' = requests + 1
           /\ IF ~g.lagged
              THEN /\ entries' = IF g.none THEN <<>>
                                 ELSE extract_items_from_xml(Batch(continue_from))
                   /\ more' = IF g.none THEN more
                              ELSE IF HasContinue(continue_from) THEN "True"
                                   ELSE "False"
                   /\ continue_from' = IF ~g.none /\ HasContinue(continue_from)
                                       THEN continue_from + batch_size
                                       ELSE continue_from
                   /\ pc' = "L518"
                   /\ err' = err
              ELSE /\ IF r1 = max_retries
                      THEN /\ pc' = "error"
                           /\ err' = [type |-> "WikiRetrieveErr", expected |-> "",
                                      found |-> <<>>]
                      ELSE /\ pc' = "L571"
                           /\ err' = err
                   /\ UNCHANGED <<entries, more, continue_from>>
  /\ UNCHANGED <<linked, sql_escaped, batch_size, max_retries, wiki, output, fds,
                 fetcher, transcoder>>

\* get_batch_entries with the loop of line 571 not entered: contents is
\* None and the empty list is returned
L571_exit ==
  /\ pc = "L571"
  /\ ~(retries < max_retries)
  /\ entries' = <<>>
  /\ pc' = "L518"
  /\ UNCHANGED <<linked, sql_escaped, batch_size, max_retries, wiki, more,
                 continue_from, lagged, retries, requests, failed, output, fds,
                 fetcher, transcoder, err>>

\* get_all_entries, lines 518-526: write the batch with the defaults of
\* write_entry_info, then leave the loop and close the file, or go round
\* into the next get_batch_entries
L518 ==
  /\ pc = "L518"
  /\ output' = output \o write_entry_info(entries, FALSE, FALSE)
  /\ IF Len(entries) = 0 \/ more # "True"
     THEN /\ fds' = fds \ {"output_fd"}
          /\ pc' = "done"
          /\ UNCHANGED <<retries, requests>>
     ELSE /\ fds' = fds
          /\ pc' = "L571"
          /\ retries' = 0
          /\ requests' = 0
  /\ UNCHANGED <<linked, sql_escaped, batch_size, max_retries, wiki, more,
                 continue_from, lagged, failed, entries, fetcher, transcoder, err>>

NextEntries == get_all_entries \/ L571_request \/ L571_exit \/ L518

SpecEntries == InitEntries /\ [][NextEntries]_vars

\* ----------------------- wikiretriever.py: Content.get_batch_page_content
\* unsql_escape with title.strip("'") for the enclosing quotes
unsql_escape_StripAll(title) ==
  LET q == {i \in 1..Len(title) : title[i] # "'"}
      t0 == IF q = {} THEN <<>> ELSE SubSeq(title, Min(q), Max(q))
      t1 == Replace(t0, <<"\\", "\\">>, <<"\\">>)
      t2 == Replace(t1, <<"\\", "'">>, <<"'">>)
      t3 == Replace(t2, <<"\\", "\"">>, <<"\"">>)
  IN  Replace(t3, <<"_">>, <<SP>>)
\* Content.unsql_escape, lines 217-222 (a title is never empty)
unsql_escape(title) ==
  LET t0 == IF title[1] = "'" /\ title[Len(title)] = "'"
            THEN SubSeq(title, 2, Len(title) - 1) ELSE title
      t1 == Replace(t0, <<"\\", "\\">>, <<"\\">>)
      t2 == Replace(t1, <<"\\", "'">>, <<"'">>)
      t3 == Replace(t2, <<"\\", "\"">>, <<"\"">>)
  IN  Replace(t3, <<"_">>, <<SP>>)

\* Content.strip_link, lines 230-233
strip_link(title) ==
  IF Len(title) >= 2 /\ title[1] = "[[" /\ title[Len(title)] = "]]"
  THEN SubSeq(title, 2, Len(title) - 1)
  ELSE title

\* Content.titles_format, line 241
titles_format(ts) == [i \in 1..Len(ts) |-> unsql_escape(strip_link(ts[i]))]

\* "\n".join(l)
RECURSIVE JoinLines(_)
JoinLines(l) ==
  IF l = <<>> THEN <<>>
  ELSE IF Len(l) = 1 THEN l[1] ELSE l[1] \o <<NL>> \o JoinLines(Tail(l))

\* the lines of a titles file, as Entries writes them: plain, linked, escaped
TitleLines ==
  { <<"a">>,
    <<"[[", "a", SP, "a", "]]">>,
    <<"'", "a", "_", "\\", "'", "a", "'">> }
TitleBatches == UNION {[1..n -> TitleLines] : n \in 1..MaxBatch}

InitContent ==
  /\ pc = "get_batch_page_content"
  /\ titles \in TitleBatches
  /\ max_retries \in 0..MaxRetries
  /\ pages = <<>> /\ contents = <<>> /\ stripped = <<>>
  /\ linked = FALSE /\ sql_escaped = FALSE
  /\ batch_size = MaxBatch
  /\ wiki = <<>>
  /\ more = "None" /\ continue_from = 0
  /\ lagged = FALSE /\ retries = 0 /\ requests = 0
  /\ failed = FALSE
  /\ entries = <<>>
  /\ output = <<>>
  /\ xml_file = <<>> /\ items = <<>> /\ broken = FALSE /\ pos = 0
  /\ line = <<>>
  /\ logid = <<>> /\ timestamp = <<>> /\ username = <<>> /\ userid = <<>>
  /\ comment = <<>> /\ type = <<>> /\ action = <<>> /\ logtitle = <<>>
  /\ params = <<>>
  /\ user_dict = {}
  /\ user_out_file = FALSE
  /\ sql_file = <<>>
  /\ ns_dict_by_string = <<>>
  /\ titles_dict = <<>>
  /\ codec_in = <<>> /\ codec_flag = TRUE /\ codec_out = <<>>
  /\ logout = <<>> /\ userout = <<>>
  /\ fds = {}
  /\ err = NoErr
  /\ FirstRun
  /\ NoTools

\* the variables of an Entries object and of the transcoder
idle ==
  <<linked, sql_escaped, batch_size, wiki, more, continue_from, entries,
    output, stripped, transcoder, fds>>

\* get_batch_page_content, lines 252-254
get_batch_page_content ==
  /\ pc = "get_batch_page_content"
  /\ pages' = JoinLines(titles_format(titles)) \o <<NL>>
  /\ retries' = 0
  /\ requests' = 0
  /\ pc' = "L255"
  /\ UNCHANGED <<titles, max_retries, contents, lagged, failed, idle, err>>

\* lines 255-265: one turn of the retry loop
L255_request ==
  /\ pc = "L255"
  /\ retries < max_retries
  /\ \E resp \in Responses :
       LET g == geturl(resp)
       IN  /\ retries' = IF lagged THEN retries + 1 ELSE retries
           /\ requests' = requests + 1
           /\ lagged' = g.lagged
           /\ failed' = g.none
           /\ contents' = g.contents
           /\ pc' = IF g.lagged THEN "L255" ELSE "L266"
  /\ UNCHANGED <<titles, pages, max_retries, idle, err>>

\* line 255: the condition of the loop is false
L255_exit ==
  /\ pc = "L255"
  /\ ~(retries < max_retries)
  /\ pc' = "L266"
  /\ UNCHANGED <<titles, pages, max_retries, contents, lagged, retries,
                 requests, failed, idle, err>>

\* lines 266-269: raise when the retries are used up, else return contents
L266_return ==
  /\ pc = "L266"
  /\ IF retries = max_retries
     THEN /\ pc' = "error"
          /\ err' = [type |-> "WikiRetrieveErr", expected |-> "", found |-> <<>>]
     ELSE /\ pc' = "returned"
          /\ err' = err
  /\ UNCHANGED <<titles, pages, max_retries, contents, lagged, retries,
                 requests, failed, idle>>

NextContent == get_batch_page_content \/ L255_request \/ L255_exit \/ L266_return

SpecContent == InitContent /\ [][NextContent]_vars

\* ------------------- wikiretriever.py: Content.strip_site_header_and_footer
\* text as a sequence of characters
SITEINFO_END == <<"<", "/", "s", "i", "t", "e", "i", "n", "f", "o", ">", "\n">>
MEDIAWIKI_END == <<"<", "/", "m", "e", "d", "i", "a", "w", "i", "k", "i", ">", "\n">>

\* s.find(sub): the index of the first occurrence, -1 without one
find_str(s, sub) ==
  LET at == {i \in 1..(Len(s) - Len(sub) + 1) : SubSeq(s, i, i + Len(sub) - 1) = sub}
  IN  IF at = {} THEN -1 ELSE Min(at) - 1

\* s.endswith(suffix)
endswith(s, suffix) ==
  Len(s) >= Len(suffix) /\ SubSeq(s, Len(s) - Len(suffix) + 1, Len(s)) = suffix

\* s[a:-b] for a >= 0 and b > 0
Slice(s, a, b) == SubSeq(s, a + 1, Len(s) - b)

\* strip_site_header_and_footer, lines 292-297: "not start" is true of 0
strip_site_header_and_footer(content) ==
  LET start == find_str(content, SITEINFO_END)
  IN  IF start = 0 THEN [raised |-> "no siteinfo header found", value |-> <<>>]
      ELSE IF ~endswith(content, MEDIAWIKI_END)
      THEN [raised |-> "no mediawiki end tag found", value |-> <<>>]
      ELSE [raised |-> "", value |-> Slice(content, start + 12, 13)]

\* the lines an export answer is made of
ExportLines ==
  { <<"<", "m", "e", "d", "i", "a", "w", "i", "k", "i", ">", "\n">>,
    SITEINFO_END,
    <<" ", " ", "<", "/", "s", "i", "t", "e", "i", "n", "f", "o", ">", "\n">>,
    <<"<", "p", "a", "g", "e", "/", ">", "\n">>,
    MEDIAWIKI_END }

RECURSIVE Concat(_)
Concat(ls) == IF ls = <<>> THEN <<>> ELSE Head(ls) \o Concat(Tail(ls))

\* answers of up to MaxLines lines
Exports == {Concat(ls) : ls \in UNION {[1..n -> ExportLines] : n \in 0..MaxLines}}

InitStrip ==
  /\ pc = "strip_site_header_and_footer"
  /\ contents \in Exports
  /\ titles = <<>> /\ pages = <<>> /\ stripped = <<>>
  /\ linked = FALSE /\ sql_escaped = FALSE
  /\ batch_size = 1 /\ max_retries = 0
  /\ wiki = <<>>
  /\ more = "None" /\ continue_from = 0
  /\ lagged = FALSE /\ retries = 0 /\ requests = 0
  /\ failed = FALSE
  /\ entries = <<>>
  /\ output = <<>>
  /\ xml_file = <<>> /\ items = <<>> /\ broken = FALSE /\ pos = 0
  /\ line = <<>>
  /\ logid = <<>> /\ timestamp = <<>> /\ username = <<>> /\ userid = <<>>
  /\ comment = <<>> /\ type = <<>> /\ action = <<>> /\ logtitle = <<>>
  /\ params = <<>>
  /\ user_dict = {}
  /\ user_out_file = FALSE
  /\ sql_file = <<>>
  /\ ns_dict_by_string = <<>>
  /\ titles_dict = <<>>
  /\ codec_in = <<>> /\ codec_flag = TRUE /\ codec_out = <<>>
  /\ logout = <<>> /\ userout = <<>>
  /\ fds = {}
  /\ err = NoErr
  /\ FirstRun
  /\ NoTools

\* content = self.strip_site_header_and_footer(content), line 336
call_strip_site_header_and_footer ==
  /\ pc = "strip_site_header_and_footer"
  /\ LET r == strip_site_header_and_footer(contents)
     IN  IF r.raised = ""
         THEN /\ stripped' = r.value
              /\ pc' = "stripped"
              /\ err' = err
         ELSE /\ stripped' = stripped
              /\ pc' = "error"
              /\ err' = [type |-> "WikiRetrieveErr", expected |-> r.raised,
                         found |-> <<>>]
  /\ UNCHANGED <<titles, pages, contents, max_retries, lagged, retries, requests,
                 failed, linked, sql_escaped, batch_size, wiki, more,
                 continue_from, entries, output, transcoder, fds>>

NextStrip == call_strip_site_header_and_footer

SpecStrip == InitStrip /\ [][NextStrip]_vars

\* ------------------------------------------- wikifile.py: File.combine_xml
\* ^\s*</siteinfo>, lines 42-43
File_compiled_end_header_pattern(l) ==
  NonWs(l) # {} /\ l[Min(NonWs(l))] = "</siteinfo>"

\* the footer is recognised at the start of the line only
compiled_end_mediawiki_pattern_Anchored(l) == l # <<>> /\ l[1] = "</mediawiki>"
\* ^\s*</mediawiki>, lines 44-45
compiled_end_mediawiki_pattern(l) ==
  NonWs(l) # {} /\ l[Min(NonWs(l))] = "</mediawiki>"

\* content files: a header that ends in a </siteinfo> line, pages, a footer
XmlHeaders ==
  { << <<"<mediawiki>", NL>>, <<SP, "<siteinfo>", NL>>, <<SP, "</siteinfo>", NL>> >>,
    << <<"<mediawiki version=\"0.10\">", NL>>, <<"</siteinfo>", NL>> >> }
XmlPages ==
  { <<SP, "<page>", "a", "</page>", NL>>, <<"<page>", "b", "</page>", NL>> }
XmlBodies == UNION {[1..n -> XmlPages] : n \in 0..MaxBody}
XmlFooters == { <<"</mediawiki>", NL>>, <<SP, "</mediawiki>", NL>> }
XmlFiles ==
  {h \o b \o <<f>> : h \in XmlHeaders, b \in XmlBodies, f \in XmlFooters}
PathLists == UNION {[1..n -> XmlFiles] : n \in 1..MaxFiles}

InitCombine ==
  /\ pc = "combine_xml"
  /\ path_list \in PathLists
  /\ file_i = 0 /\ in_header = TRUE /\ in_pos = 0
  /\ combined = <<>>
  /\ related_file = <<>> /\ ns_dict = <<>>
  /\ related_ns_list = {} /\ ns_list = {}
  /\ title_list = <<>> /\ title_dict = <<>>
  /\ NoRetriever
  /\ FirstRun
  /\ xml_file = <<>> /\ items = <<>> /\ broken = FALSE /\ pos = 0
  /\ line = <<>>
  /\ logid = <<>> /\ timestamp = <<>> /\ username = <<>> /\ userid = <<>>
  /\ comment = <<>> /\ type = <<>> /\ action = <<>> /\ logtitle = <<>>
  /\ params = <<>>
  /\ user_dict = {}
  /\ user_out_file = FALSE
  /\ sql_file = <<>>
  /\ ns_dict_by_string = <<>>
  /\ titles_dict = <<>>
  /\ codec_in = <<>> /\ codec_flag = TRUE /\ codec_out = <<>>
  /\ logout = <<>> /\ userout = <<>>
  /\ fds = {}
  /\ err = NoErr

\* everything combine_xml leaves alone
beside_combine ==
  <<pos, line, frame, out, xml_file, items, broken, user_out_file, sql_file,
    ns_dict_by_string, titles_dict, codec, retriever, runs, prev_userout,
    related_file, ns_dict, related_ns_list, ns_list, title_list, title_dict, err>>

\* combine_xml, lines 47-52: open the output and the first input
combine_xml ==
  /\ pc = "combine_xml"
  /\ file_i' = 0
  /\ in_header' = TRUE
  /\ in_pos' = 0
  /\ fds' = {"out_fd", "in_fd"}
  /\ pc' = "L53"
  /\ UNCHANGED <<path_list, combined, beside_combine>>

\* lines 53-61: one turn of "for line in in_fd"
L53_line ==
  /\ pc = "L53"
  /\ in_pos < Len(path_list[file_i + 1])
  /\ LET l == path_list[file_i + 1][in_pos + 1]
     IN  /\ in_pos' = in_pos + 1
         /\ IF file_i + 1 < Len(path_list) /\ compiled_end_mediawiki_pattern(l)
            THEN UNCHANGED <<in_header, combined>>
            ELSE IF file_i # 0 /\ in_header
            THEN /\ in_header' = (IF File_compiled_end_header_pattern(l)
                                  THEN FALSE ELSE in_header)
                 /\ combined' = combined
            ELSE /\ combined' = Append(combined, l)
                 /\ in_header' = in_header
  /\ UNCHANGED <<pc, path_list, file_i, fds, beside_combine>>

\* lines 62-65 and 50-52: the input is exhausted; close it and go on to the
\* next file, or close the output after the last
L53_eof ==
  /\ pc = "L53"
  /\ in_pos = Len(path_list[file_i + 1])
  /\ file_i' = file_i + 1
  /\ IF file_i + 1 < Len(path_list)
     THEN /\ in_header' = TRUE
          /\ in_pos' = 0
          /\ UNCHANGED <<pc, fds>>
     ELSE /\ pc' = "done"
          /\ fds' = {}
          /\ UNCHANGED <<in_header, in_pos>>
  /\ UNCHANGED <<path_list, combined, beside_combine>>

NextCombine == combine_xml \/ L53_line \/ L53_eof

SpecCombine == InitCombine /\ [][NextCombine]_vars

\* --------------- wikicontent2sql.py: Titles.add_related_titles_from_file
\* int(s) and str(n) on strings of decimal digits
DigitVal(d) ==
  CASE d = "0" -> 0 [] d = "1" -> 1 [] d = "2" -> 2 [] d = "3" -> 3
    [] d = "4" -> 4 [] d = "5" -> 5 [] d = "6" -> 6 [] d = "7" -> 7
    [] d = "8" -> 8 [] d = "9" -> 9
RECURSIVE py_int(_)
py_int(s) ==
  IF s = <<>> THEN 0
  ELSE 10 * py_int(SubSeq(s, 1, Len(s) - 1)) + DigitVal(s[Len(s)])
DigitOf(n) == CHOOSE d \in Digits : DigitVal(d) = n
RECURSIVE py_str(_)
py_str(n) ==
  IF n < 0 THEN <<"-">> \o py_str(0 - n)
  ELSE IF n < 10 THEN <<DigitOf(n)>>
  ELSE py_str(n \div 10) \o <<DigitOf(n % 10)>>

\* line.strip(), line 398
strip(l) ==
  IF NonWs(l) = {} THEN <<>> ELSE SubSeq(l, Min(NonWs(l)), Max(NonWs(l)))

\* {num: name} as get_ns_dict builds it, and its inverse
RelatedNsDict ==
  [n \in {<<"0">>, <<"1">>, <<"2">>, <<"4">>, <<"5">>} |->
     CASE n = <<"0">> -> <<>>
       [] n = <<"1">> -> <<"Talk">>
       [] n = <<"2">> -> <<"User">>
       [] n = <<"4">> -> <<"Project">>
       [] n = <<"5">> -> <<"Project", SP, "talk">>]
RelatedNsDictByString ==
  [s \in {RelatedNsDict[n] : n \in DOMAIN RelatedNsDict} |->
     CHOOSE n \in DOMAIN RelatedNsDict : RelatedNsDict[n] = s]

\* lines of a title list: main namespace, talk, project, project talk, a
\* namespace nobody asked for, and a colon after a word that is no namespace
RelatedLines ==
  { <<"a", NL>>,
    <<"Talk", ":", "a", NL>>,
    <<"Project", ":", "b", NL>>,
    <<"Project", SP, "talk", ":", "a", NL>>,
    <<"User", ":", "a", NL>>,
    <<"X", ":", "a", NL>> }
RelatedFiles == UNION {[1..n -> RelatedLines] : n \in 0..MaxLines}

InitRelated ==
  /\ pc = "add_related_titles_from_file"
  /\ related_file \in RelatedFiles
  /\ ns_dict = RelatedNsDict
  /\ ns_dict_by_string = RelatedNsDictByString
  /\ related_ns_list = {<<"1">>, <<"5">>}
  /\ ns_list \in {{<<"0">>, <<"4">>}, {<<"4">>}}
  /\ title_list = <<>> /\ title_dict = <<>>
  /\ in_pos = 0
  /\ path_list = <<>> /\ file_i = 0 /\ in_header = TRUE /\ combined = <<>>
  /\ NoRetriever
  /\ FirstRun
  /\ xml_file = <<>> /\ items = <<>> /\ broken = FALSE /\ pos = 0
  /\ line = <<>>
  /\ logid = <<>> /\ timestamp = <<>> /\ username = <<>> /\ userid = <<>>
  /\ comment = <<>> /\ type = <<>> /\ action = <<>> /\ logtitle = <<>>
  /\ params = <<>>
  /\ user_dict = {}
  /\ user_out_file = FALSE
  /\ sql_file = <<>>
  /\ titles_dict = <<>>
  /\ codec_in = <<>> /\ codec_flag = TRUE /\ codec_out = <<>>
  /\ logout = <<>> /\ userout = <<>>
  /\ fds = {}
  /\ err = NoErr

\* everything add_related_titles_from_file leaves alone
beside_related ==
  <<pos, line, frame, out, xml_file, items, broken, user_out_file, sql_file,
    ns_dict_by_string, titles_dict, codec, retriever, runs, prev_userout,
    path_list, file_i, in_header, combined, related_file, ns_dict,
    related_ns_list, ns_list, err>>

\* self.dict[title][ns] = True, creating the inner dict when it is missing;
\* an inner dict is the set of its keys
dict_add(d, title, ns) ==
  [t \in DOMAIN d \cup {title} |->
     IF t = title
     THEN (IF title \in DOMAIN d THEN d[title] ELSE {}) \cup {ns}
     ELSE d[t]]

\* line 396: open the list of titles
add_related_titles_from_file ==
  /\ pc = "add_related_titles_from_file"
  /\ fds' = {"fd"}
  /\ in_pos' = 0
  /\ pc' = "L397"
  /\ UNCHANGED <<title_list, title_dict, beside_related>>

\* lines 397-431: one turn of "for line in fd"
L397_line ==
  /\ pc = "L397"
  /\ in_pos < Len(related_file)
  /\ in_pos' = in_pos + 1
  /\ LET l == strip(related_file[in_pos + 1])
         sep == find(l, ":")
         prefix == SubSeq(l, 1, sep)
         no_prefix_title == SubSeq(l, sep + 2, Len(l))
     IN  IF sep # -1
         THEN IF prefix \in DOMAIN ns_dict_by_string
              THEN IF ns_dict_by_string[prefix] \in related_ns_list
                   THEN LET related_ns ==
                              py_str(py_int(ns_dict_by_string[prefix]) - 1)
                            new_title ==
                              IF ns_dict[related_ns] # <<>>
                              THEN ns_dict[related_ns] \o <<":">>
                                     \o no_prefix_title
                              ELSE no_prefix_title
                        IN  /\ title_list' = Append(title_list, new_title)
                            /\ title_dict' =
                                 dict_add(title_dict, no_prefix_title,
                                          related_ns)
                   ELSE IF ns_dict_by_string[prefix] \in ns_list
                   THEN /\ title_list' = Append(title_list, no_prefix_title)
                        /\ title_dict' =
                             dict_add(title_dict, no_prefix_title,
                                      ns_dict_by_string[prefix])
                   ELSE UNCHANGED <<title_list, title_dict>>
              ELSE UNCHANGED <<title_list, title_dict>>
         ELSE IF <<"0">> \in ns_list
         THEN /\ title_list' = Append(title_list, l)
              /\ title_dict' = dict_add(title_dict, l, <<"0">>)
         ELSE UNCHANGED <<title_list, title_dict>>
  /\ UNCHANGED <<pc, fds, beside_related>>

\* line 432: the file is exhausted
L397_eof ==
  /\ pc = "L397"
  /\ in_pos = Len(related_file)
  /\ fds' = {}
  /\ pc' = "done"
  /\ UNCHANGED <<in_pos, title_list, title_dict, beside_related>>

NextRelated == add_related_titles_from_file \/ L397_line \/ L397_eof

SpecRelated == InitRelated /\ [][NextRelated]_vars

\* ------------------- wikiretriever.py: the title codec of the retriever
\* what the codec of the retriever is applied to: the tokens of the
\* transcoder's codec and the underscore
TitleTokens == CodecTokens \cup {"_"}
TitleStrings == UNION {[1..n -> TitleTokens] : n \in 0..MaxLen}

InitTitleCodec ==
  /\ pc = "codec"
  /\ codec_in \in TitleStrings
  /\ codec_flag = TRUE
  /\ codec_out = <<>>
  /\ xml_file = <<>> /\ items = <<>> /\ broken = FALSE /\ pos = 0
  /\ line = <<>>
  /\ logid = <<>> /\ timestamp = <<>> /\ username = <<>> /\ userid = <<>>
  /\ comment = <<>> /\ type = <<>> /\ action = <<>> /\ logtitle = <<>>
  /\ params = <<>>
  /\ user_dict = {}
  /\ user_out_file = FALSE
  /\ sql_file = <<>>
  /\ ns_dict_by_string = <<>>
  /\ titles_dict = <<>>
  /\ logout = <<>> /\ userout = <<>>
  /\ fds = {}
  /\ err = NoErr
  /\ NoRetriever
  /\ FirstRun
  /\ NoTools

\* everything the codec leaves alone
beside_codec ==
  <<codec_in, codec_flag, xml_file, items, broken, user_out_file, sql_file,
    ns_dict_by_string, titles_dict, pos, line, frame, out, fds, err,
    retriever, runs, prev_userout, tools>>

\* self.sql_escape(attr), line 494
call_Entries_sql_escape ==
  /\ pc = "codec"
  /\ pc' = "Entries.sql_escape"
  /\ codec_out' = Entries_sql_escape(codec_in)
  /\ UNCHANGED beside_codec

\* self.unsql_escape(t), line 241, of a title written by line 494
call_unsql_escape ==
  /\ pc = "Entries.sql_escape"
  /\ pc' = "unsql_escape"
  /\ codec_out' = unsql_escape(codec_out)
  /\ UNCHANGED beside_codec

\* self.desanitize(entry.get(a)), line 529
call_desanitize ==
  /\ pc = "codec"
  /\ pc' = "desanitize"
  /\ codec_out' = desanitize(codec_in)
  /\ UNCHANGED beside_codec

\* self.sql_escape(attr) of an attribute desanitized by line 529
call_Entries_sql_escape_desanitize ==
  /\ pc = "desanitize"
  /\ pc' = "Entries.sql_escape(desanitize)"
  /\ codec_out' = Entries_sql_escape(codec_out)
  /\ UNCHANGED beside_codec

NextTitleCodec ==
  \/ call_Entries_sql_escape
  \/ call_unsql_escape
  \/ call_desanitize
  \/ call_Entries_sql_escape_desanitize

SpecTitleCodec == InitTitleCodec /\ [][NextTitleCodec]_vars

\* ------------------------------------------------------------------ claims
\* columns of a logging row and of a user row
LogId(row) == row.values[1]
LogUser(row) == row.values[5]
LogUserText(row) == row.values[6]
LogComment(row) == row.values[10]
LogParams(row) == row.values[11]
UserId(row) == row.values[1]
UserName(row) == row.values[2]

\* the user id a rendered item carries
ItemUserId(it) == IF it.contributor.deleted THEN <<"0">> ELSE it.contributor.id

\* the item of an unbroken dump that do_log_item is working on
Cur == items[Len(logout) + 1]
InItem == ~broken /\ pc \notin {"start", "header", "L180", "done", "error"}

\* C1: when write_sql has completed on a well-formed dump of N log items,
\* logout holds exactly N logging statements and the k-th carries the id, the
\* user, the comment and the params of the k-th item.
C1_RowPerItem ==
  (pc = "done" /\ ~broken) =>
    /\ Len(logout) = Len(items)
    /\ \A k \in 1..Len(items) :
         /\ logout[k].table = "logging"
         /\ LogId(logout[k]) = items[k].logid
         /\ LogUser(logout[k]) = ItemUserId(items[k])
         /\ LogComment(logout[k])
              = sql_escape(un_xml_escape(items[k].comment.text), FALSE)
         /\ LogParams(logout[k])
              = sql_escape(un_xml_escape(items[k].params.text), FALSE)

C1_Witness ==
  /\ pc = "done" /\ ~broken
  /\ Len(items) = 2 /\ Len(logout) = 2
  /\ items[1].logid # items[2].logid
  /\ ItemUserId(items[1]) = ItemUserId(items[2])

\* the states of do_log_item after the first, and the text each tests
ParserStates ==
  {"L188", "L194", "L200", "L210", "L217", "L223", "L229", "L233", "L237",
   "L242", "L249", "L255", "L266", "L271", "L276", "L284"}
AtHand == IF pc \in {"L237", "L276"} THEN line \o NextLine ELSE NextLine

\* a line that matches none of the forms the state accepts
Rejected ==
  /\ NextLine # EOF
  /\ CASE pc \in {"L188", "L217"} -> ~compiled_id_pattern(AtHand)
       [] pc = "L194" -> ~compiled_timestamp_pattern(AtHand)
       [] pc = "L200" -> /\ ~compiled_contributor_pattern(AtHand)
                         /\ ~Contains(AtHand, "<contributor deleted")
       [] pc = "L210" -> ~compiled_username_pattern(AtHand)
       [] pc = "L223" -> ~compiled_end_contributor_pattern(AtHand)
       [] pc = "L229" -> IF Contains(AtHand, "<comment>")
                         THEN /\ Contains(AtHand, "</comment>")
                              /\ ~compiled_comment_pattern(AtHand)
                         ELSE /\ ~Contains(AtHand, "<comment deleted")
                              /\ ~compiled_type_pattern(AtHand)
       [] pc = "L237" -> /\ Contains(AtHand, "</comment>")
                         /\ ~compiled_comment_pattern(AtHand)
       [] pc \in {"L233", "L242"} -> ~compiled_type_pattern(AtHand)
       [] pc = "L249" -> ~compiled_action_pattern(AtHand)
       [] pc = "L255" -> /\ ~compiled_logtitle_pattern(AtHand)
                         /\ ~Contains(AtHand, "<text deleted")
       [] pc = "L266" -> /\ ~compiled_no_params_pattern(AtHand)
                         /\ IF Contains(AtHand, "<params")
                            THEN /\ Contains(AtHand, "</params>")
                                 /\ ~compiled_params_pattern(AtHand)
                            ELSE ~compiled_end_logitem_pattern(AtHand)
       [] pc = "L276" -> /\ Contains(AtHand, "</params>")
                         /\ ~compiled_params_pattern(AtHand)
       [] pc \in {"L271", "L284"} -> ~compiled_end_logitem_pattern(AtHand)
       [] OTHER -> FALSE

\* the element the state's error names
Expected ==
  CASE pc \in {"L188", "L217"} -> "<id>"
    [] pc = "L194" -> "<timestamp>"
    [] pc = "L200" -> "<contributor>"
    [] pc = "L210" -> "<username>"
    [] pc = "L223" -> "</contributor>"
    [] pc = "L229" -> IF Contains(AtHand, "<comment>") THEN "<comment>" ELSE "<type>"
    [] pc = "L237" -> "<comment>"
    [] pc \in {"L233", "L242"} -> "<type>"
    [] pc = "L249" -> "<action>"
    [] pc = "L255" -> "<logtitle>"
    [] pc = "L266" -> IF Contains(AtHand, "<params")
                      THEN PARAMS_EXPECTED ELSE "</logitem>"
    [] pc = "L276" -> PARAMS_EXPECTED
    [] pc \in {"L271", "L284"} -> "</logitem>"
    [] OTHER -> ""

\* s ends with the line l
EndsWith(s, l) ==
  Len(s) >= Len(l) /\ SubSeq(s, Len(s) - Len(l) + 1, Len(s)) = l

\* C2: at every parser state but the first, a line that matches none of the
\* accepted forms raises the error that names the expected element and holds
\* the offending line; after the error no line is read and no statement is
\* written.
C2_BadLineIsFatal ==
  [][/\ (pc \in ParserStates /\ Rejected) =>
          /\ pc' = "error"
          /\ err'.type = "WikiContentErr"
          /\ err'.expected = Expected
          /\ EndsWith(err'.found, NextLine)
          /\ logout' = logout /\ userout' = userout
     /\ pc = "error" => (pos' = pos /\ logout' = logout /\ userout' = userout)
    ]_vars

C2_Witness ==
  /\ pc = "error"
  /\ err.type = "WikiContentErr"
  /\ err.expected = "<type>"
  /\ Len(logout) = 1
  /\ pos < Len(xml_file)

\* C3: a line that is not <logitem> but holds the closing tag of the dump,
\* read where a log item is expected, ends the run cleanly: no error, no
\* statement for it, no line read after it.
C3_CleanEnd ==
  [][/\ (/\ pc = "L180"
         /\ ~compiled_logitem_pattern(NextLine)
         /\ Contains(NextLine, "</mediawiki")) =>
          /\ pc' = "done"
          /\ err' = NoErr
          /\ pos' = pos + 1
          /\ logout' = logout /\ userout' = userout
     /\ pc = "done" => (pos' = pos /\ logout' = logout /\ userout' = userout)
    ]_vars

C3_Witness ==
  /\ pc = "done"
  /\ err = NoErr
  /\ Len(logout) = 1
  /\ pos < Len(xml_file)

\* the first logging row written for the user of row k
FirstOf(k) ==
  Min({i \in 1..Len(logout) : LogUser(logout[i]) = LogUser(logout[k])})

C5_NoRowForExcluded ==
  \A j \in 1..Len(userout) : UserId(userout[j]) # <<"1">>

\* C6: a "contributor deleted" line gives userid "0" and username "" and the
\* next line read is the one at the comment position; at most one user row
\* is written for id "0".
C6_DeletedContributor ==
  [][/\ (/\ pc = "L200"
         /\ ~compiled_contributor_pattern(NextLine)
         /\ Contains(NextLine, "<contributor deleted")) =>
          /\ userid' = <<"0">>
          /\ username' = <<>>
          /\ pc' = "L229"
          /\ pos' = pos + 1
     /\ Cardinality({j \in 1..Len(userout') : UserId(userout'[j]) = <<"0">>}) <= 1
    ]_vars

C6_Witness ==
  /\ user_out_file
  /\ Len(logout) = 2
  /\ LogUser(logout[1]) = <<"0">> /\ LogUser(logout[2]) = <<"0">>
  /\ LogUserText(logout[2]) = <<"'", "'">>
  /\ Cardinality({j \in 1..Len(userout) : UserId(userout[j]) = <<"0">>}) = 1

\* C7: a user row is written only for a contributor with a user name: none
\* for a deleted contributor.
C7_NoRowForDeleted ==
  \A j \in 1..Len(userout) :
    UserId(userout[j]) # <<"0">> /\ UserName(userout[j]) # <<"'", "'">>

\* C8: when the line at the comment position is no comment and no "comment
\* deleted" marker, that same line is matched as <type>, the comment is "",
\* and only that line has been read.
C8_AbsentComment ==
  [][(/\ pc = "L229"
      /\ ~Contains(NextLine, "<comment>")
      /\ ~Contains(NextLine, "<comment deleted")
      /\ compiled_type_pattern(NextLine)) =>
       /\ comment' = <<>>
       /\ type' = Group(NextLine)
       /\ pc' = "L249"
       /\ pos' = pos + 1
    ]_vars

C8_Witness ==
  /\ InItem /\ Cur.comment.form = "absent"
  /\ pc = "L249"
  /\ comment = <<>> /\ type = <<"t">>
  /\ compiled_type_pattern(xml_file[pos])

\* C9: a "comment deleted" marker at the comment position is read and
\* dropped, and the <type> element is taken from the line after it, with
\* comment "": one line more than when the comment is absent.
C9_DeletedComment ==
  [][/\ (/\ pc = "L229"
         /\ ~Contains(NextLine, "<comment>")
         /\ Contains(NextLine, "<comment deleted")) =>
          /\ pc' = "L233"
          /\ pos' = pos + 1
          /\ UNCHANGED frame
     /\ (pc = "L233" /\ compiled_type_pattern(NextLine)) =>
          /\ comment' = <<>>
          /\ type' = Group(NextLine)
          /\ pc' = "L249"
          /\ pos' = pos + 1
    ]_vars

C9_Witness ==
  /\ InItem /\ Cur.comment.form = "deleted"
  /\ pc = "L249"
  /\ comment = <<>> /\ type = <<"t">>
  /\ Contains(xml_file[pos - 1], "<comment deleted")

\* C10: a <comment> element that spans several lines is parsed without a
\* grammar error as one comment holding the content of all its lines, and
\* the line after the one with </comment> is the one matched as <type>.
C10_MultiLineComment ==
  (~broken /\ Len(logout) < Len(items)
     /\ Cur.comment.form = "text" /\ Find(Cur.comment.text, NL) # 0) =>
    /\ pc = "error" => err.type # "WikiContentErr"
    /\ pc = "L237" => line = SubSeq(<<"<comment>">> \o Cur.comment.text, 1, Len(line))
    /\ pc = "L242" =>
         /\ comment = Cur.comment.text
         /\ Contains(xml_file[pos], "</comment>")
    /\ (pc = "L249" /\ type # <<>>) =>
         /\ comment = Cur.comment.text
         /\ Contains(xml_file[pos - 1], "</comment>")
         /\ type = Group(xml_file[pos])

C10_Witness ==
  /\ InItem /\ Cur.comment.form = "text" /\ Find(Cur.comment.text, NL) # 0
  /\ pc = "L249"
  /\ comment = Cur.comment.text
  /\ type = <<"t">>

\* more columns of a logging row
LogTimestamp(row) == row.values[4]
LogNamespace(row) == row.values[7]
LogTitle(row) == row.values[8]
LogPage(row) == row.values[9]

\* the step writes a logging row; the row it writes
Emitted == Len(logout') = Len(logout) + 1
NewRow == logout'[Len(logout')]

\* the three forms of the line at the params position
ParamsSelfClosed(l) == MatchTag(l, NO_PARAMS)
ParamsElement(l) == MatchElement(l, PARAMS_OPEN, "</params>", TRUE)
ParamsAbsent(l) == ~Contains(l, "<params") /\ MatchTag(l, "</logitem>")

\* C11: the line at the params position is taken in one of three forms, no
\* two of which hold of one line.  A self-closed tag gives params "" and an
\* element, on one line or gathered from several, gives its content; in both
\* cases the following line is the one matched as </logitem>.  A line that is
\* itself </logitem> gives params "" and is the last line read for the
\* item.  The row written carries the params so found.
C11_ParamsForms ==
  [][/\ pc = "L266" =>
          /\ ~(ParamsSelfClosed(NextLine) /\ ParamsElement(NextLine))
          /\ ~(ParamsSelfClosed(NextLine) /\ ParamsAbsent(NextLine))
          /\ ~(ParamsElement(NextLine) /\ ParamsAbsent(NextLine))
     /\ (pc = "L266" /\ ParamsSelfClosed(NextLine)) =>
          /\ params' = <<>> /\ pc' = "L271" /\ pos' = pos + 1
          /\ logout' = logout
     /\ (pc = "L266" /\ ParamsElement(NextLine)) =>
          /\ params' = Group(NextLine) /\ pc' = "L284" /\ pos' = pos + 1
          /\ logout' = logout
     /\ (pc = "L276" /\ ParamsElement(line \o NextLine)) =>
          /\ params' = Group(line \o NextLine) /\ pc' = "L284" /\ pos' = pos + 1
          /\ logout' = logout
     /\ (pc \in {"L271", "L284"} /\ MatchTag(NextLine, "</logitem>")) =>
          /\ pos' = pos + 1
          /\ \/ pc' = "error" /\ err'.type = "KeyError"
             \/ /\ Emitted /\ pc' = "L180"
                /\ LogParams(NewRow) = sql_escape(un_xml_escape(params), FALSE)
     /\ (pc = "L266" /\ ParamsAbsent(NextLine)) =>
          /\ pos' = pos + 1
          /\ \/ pc' = "error" /\ err'.type = "KeyError"
             \/ /\ Emitted /\ pc' = "L180"
                /\ LogParams(NewRow) = <<"'", "'">>
     /\ (InItem /\ pc = "L266") =>
          pc' = CASE Cur.params.form = "empty" -> "L271"
                  [] Cur.params.form = "text" ->
                       IF Find(Cur.params.text, NL) = 0 THEN "L284" ELSE "L276"
                  [] OTHER -> IF Emitted THEN "L180" ELSE "error"
     /\ (InItem /\ Emitted) =>
          /\ LogParams(NewRow) = Quoted(Cur.params.text)
          /\ MatchTag(xml_file[pos'], "</logitem>")
          /\ pos' = Len(DumpLines(SubSeq(items, 1, Len(logout')))) - 1
    ]_vars

C11_Witness ==
  /\ ~broken /\ pc = "L180"
  /\ Len(logout) = 1
  /\ items[1].params.form = "absent"
  /\ LogParams(logout[1]) = <<"'", "'">>
  /\ MatchTag(xml_file[pos], "</logitem>")
  /\ MatchElement(xml_file[pos - 1], "<logtitle>", "</logtitle>", FALSE)

\* a well-formed <logtitle> element
LogtitleElement(l) == MatchElement(l, "<logtitle>", "</logtitle>", FALSE)

\* C12: a "text deleted" marker at the title position is accepted with
\* logtitle "", and the row of such a record has namespace 0 and the empty
\* quoted title; a line there that is neither a well-formed <logtitle>
\* element nor the marker raises the error that expects <logtitle>.
C12_DeletedTitle ==
  [][/\ (/\ pc = "L255"
         /\ ~LogtitleElement(NextLine)
         /\ Contains(NextLine, "<text deleted")) =>
          /\ logtitle' = <<>> /\ pc' = "L266" /\ pos' = pos + 1
          /\ err' = NoErr
     /\ (/\ pc = "L255"
         /\ ~LogtitleElement(NextLine)
         /\ ~Contains(NextLine, "<text deleted")) =>
          /\ pc' = "error"
          /\ err' = [type |-> "WikiContentErr", expected |-> "<logtitle>",
                     found |-> NextLine]
          /\ logout' = logout
     /\ (pc \in {"L266", "L271", "L284"} /\ logtitle = <<>> /\ Emitted) =>
          /\ LogNamespace(NewRow) = <<"0">>
          /\ LogTitle(NewRow) = <<"'", "'">>
     /\ (InItem /\ Cur.logtitle.form = "deleted") => pc' # "error"
    ]_vars

C12_Witness ==
  /\ ~broken /\ pc = "L180"
  /\ Len(logout) = 1
  /\ items[1].logtitle.form = "deleted"
  /\ LogNamespace(logout[1]) = <<"0">>
  /\ LogTitle(logout[1]) = <<"'", "'">>
  /\ LogPage(logout[1]) = <<"NULL">>

\* the raw title of the k-th item, cut at its first colon
RawTitle(k) == items[k].logtitle.text
HasColon(t) == \E i \in 1..Len(t) : t[i] = ":"
FirstColon(t) ==
  CHOOSE i \in 1..Len(t) : t[i] = ":" /\ \A j \in 1..(i - 1) : t[j] # ":"
BeforeColon(t) == SubSeq(t, 1, FirstColon(t) - 1)
AfterColon(t) == SubSeq(t, FirstColon(t) + 1, Len(t))
KnownPrefix(t) == HasColon(t) /\ BeforeColon(t) \in DOMAIN ns_dict_by_string

\* C13: the row of a record whose title has a known namespace name before
\* its first colon carries that namespace's id and, as title, the
\* XML-unescaped and SQL-escaped text after that first colon, later colons
\* included.
C13_KnownPrefix ==
  ~broken =>
    \A k \in 1..Len(logout) :
      KnownPrefix(RawTitle(k)) =>
        /\ LogNamespace(logout[k]) = ns_dict_by_string[BeforeColon(RawTitle(k))].v
        /\ LogTitle(logout[k]) = sql_escape(un_xml_escape(AfterColon(RawTitle(k))), TRUE)

C13_Witness ==
  /\ ~broken /\ Len(logout) = 1
  /\ RawTitle(1) = <<"N", ":", "N", ":", "P", SP, "&", "amp;", "'">>
  /\ LogNamespace(logout[1]) = <<"1", "4">>
  /\ LogTitle(logout[1]) = <<"'", "N", ":", "P", "_", "&", "\\", "'", "'">>

\* C14: the row of a record whose title has no colon, or no known namespace
\* name before its first colon, carries namespace 0 and, as title, the whole
\* raw title XML-unescaped and SQL-escaped, whatever stands before a later
\* colon.
C14_UnknownPrefix ==
  ~broken =>
    \A k \in 1..Len(logout) :
      ~KnownPrefix(RawTitle(k)) =>
        /\ LogNamespace(logout[k]) = <<"0">>
        /\ LogTitle(logout[k]) = sql_escape(un_xml_escape(RawTitle(k)), TRUE)

C14_Witness ==
  /\ ~broken /\ Len(logout) = 1
  /\ RawTitle(1) = <<"X", ":", "N", ":", "R">>
  /\ <<"N">> \in DOMAIN ns_dict_by_string
  /\ LogNamespace(logout[1]) = <<"0">>
  /\ LogTitle(logout[1]) = <<"'", "X", ":", "N", ":", "R", "'">>

\* the (bare title, namespace) pair the k-th item resolves to
BareTitle(k) ==
  IF KnownPrefix(RawTitle(k))
  THEN sql_escape(un_xml_escape(AfterColon(RawTitle(k))), TRUE)
  ELSE sql_escape(un_xml_escape(RawTitle(k)), TRUE)
Namespace(k) ==
  IF KnownPrefix(RawTitle(k))
  THEN ns_dict_by_string[BeforeColon(RawTitle(k))].v
  ELSE <<"0">>

\* the "pageid ns title" triple of a line of the side file
StripNL(s) == IF s # <<>> /\ s[Len(s)] = NL THEN SubSeq(s, 1, Len(s) - 1) ELSE s
SideEntry(l) ==
  [pageid |-> Split(l, 3)[1], ns |-> IntOf(Split(l, 3)[2]),
   title |-> StripNL(Split(l, 3)[3])]
\* the lines of the side file that list the pair, and the page id it records
EntriesOf(title, ns) ==
  {i \in 1..Len(sql_file) :
     SideEntry(sql_file[i]).title = title /\ SideEntry(sql_file[i]).ns = ns}
Indexed(title, ns) == EntriesOf(title, ns) # {}
PageIdOf(title, ns) == SideEntry(sql_file[Max(EntriesOf(title, ns))]).pageid

\* the k-th item has been through lines 292-316
Resolved(k) == k <= Len(logout) \/ (pc = "error" /\ k = Len(logout) + 1)

\* C15: every record whose resolved pair is listed in the side file gets a
\* logging row whose log_page is the page id listed for the pair, in
\* namespace 0 and in a prefixed namespace alike.
C15_IndexedPageId ==
  ~broken =>
    \A k \in 1..Len(items) :
      (Resolved(k) /\ Indexed(BareTitle(k), Namespace(k))) =>
        /\ k <= Len(logout)
        /\ LogPage(logout[k]) = PageIdOf(BareTitle(k), Namespace(k))

\* C16: every record whose resolved pair is not listed in the side file,
\* its title being listed under another namespace or not at all, gets a
\* logging row with log_page NULL; the lookup never ends the run.
C16_MissIsNull ==
  /\ err.type # "KeyError"
  /\ ~broken =>
       \A k \in 1..Len(items) :
         (Resolved(k) /\ ~Indexed(BareTitle(k), Namespace(k))) =>
           /\ k <= Len(logout)
           /\ LogPage(logout[k]) = <<"NULL">>

\* the five entities and the character each stands for
EntityChar(name) ==
  CASE name = "quot;" -> "\""
    [] name = "lt;" -> "<"
    [] name = "gt;" -> ">"
    [] name = "#039;" -> "'"
    [] name = "amp;" -> "&"
IsEntity(s) ==
  Len(s) >= 2 /\ s[1] = "&" /\ s[2] \in {"quot;", "lt;", "gt;", "#039;", "amp;"}

\* one pass from left to right that decodes every entity of s once
RECURSIVE DecodeOnce(_)
DecodeOnce(s) ==
  IF s = <<>> THEN <<>>
  ELSE IF IsEntity(s)
       THEN <<EntityChar(s[2])>> \o DecodeOnce(SubSeq(s, 3, Len(s)))
       ELSE <<Head(s)>> \o DecodeOnce(Tail(s))

\* C17: un_xml_escape returns its argument with every entity decoded exactly
\* once, the text that comes out of &amp; being left as it is: &amp;lt;
\* gives &lt;.
C17_DecodeOnce ==
  pc = "un_xml_escape" =>
    /\ codec_out = DecodeOnce(codec_in)
    /\ codec_in = <<"&", "amp;", "lt;">> => codec_out = <<"&", "lt;">>

C17_Witness ==
  /\ pc = "un_xml_escape"
  /\ codec_in = <<"&", "amp;", "lt;">>
  /\ codec_out = <<"&", "lt;">>

\* one pass that puts a backslash before each backslash and quote of s
RECURSIVE EscapeOnce(_)
EscapeOnce(s) ==
  IF s = <<>> THEN <<>>
  ELSE (IF Head(s) \in {"\\", "'", "\""} THEN <<"\\", Head(s)>> ELSE <<Head(s)>>)
         \o EscapeOnce(Tail(s))
Underscored(s) == [i \in 1..Len(s) |-> IF s[i] = SP THEN "_" ELSE s[i]]
Specials(s) == Cardinality({i \in 1..Len(s) : s[i] \in {"\\", "'", "\""}})

\* C18: between its two quotes the result of sql_escape is its argument
\* with one backslash added before each backslash, single quote and double
\* quote, and no other backslash: a quote gets one backslash, not two.
C18_EscapeOnce ==
  /\ pc = "sql_escape" =>
       /\ codec_out
            = Quoted(IF codec_flag THEN Underscored(EscapeOnce(codec_in))
                     ELSE EscapeOnce(codec_in))
       /\ Len(codec_out) = Len(codec_in) + Specials(codec_in) + 2
       /\ codec_in = <<"'">> => codec_out = <<"'", "\\", "'", "'">>
  /\ pc = "sql_escape(un_xml_escape)" =>
       Len(codec_out)
         = Len(un_xml_escape(codec_in)) + Specials(un_xml_escape(codec_in)) + 2

C18_Witness ==
  /\ pc = "sql_escape"
  /\ codec_in = <<"\\", "'">>
  /\ codec_out = <<"'", "\\", "\\", "\\", "'", "'">>

\* occurrences of the token c in s
Count(s, c) == Cardinality({i \in 1..Len(s) : s[i] = c})
InQuotes(s) == Len(s) >= 2 /\ s[1] = "'" /\ s[Len(s)] = "'"
\* the raw text the title column is made from
RawBare(k) == IF KnownPrefix(RawTitle(k)) THEN AfterColon(RawTitle(k)) ELSE RawTitle(k)
RawUserName(k) == items[k].contributor.username

\* C19: title, user name, comment and params of a row stand in single
\* quotes; the title has an underscore for each space of the raw title and
\* no space, while user name, comment and params keep each of their spaces
\* and get no underscore.
C19_Underscores ==
  ~broken =>
    \A k \in 1..Len(logout) :
      /\ InQuotes(LogTitle(logout[k])) /\ InQuotes(LogUserText(logout[k]))
      /\ InQuotes(LogComment(logout[k])) /\ InQuotes(LogParams(logout[k]))
      /\ Count(LogTitle(logout[k]), SP) = 0
      /\ Count(LogTitle(logout[k]), "_")
           = Count(RawBare(k), SP) + Count(RawBare(k), "_")
      /\ Count(LogUserText(logout[k]), SP) = Count(RawUserName(k), SP)
      /\ Count(LogUserText(logout[k]), "_") = Count(RawUserName(k), "_")
      /\ Count(LogComment(logout[k]), SP) = Count(items[k].comment.text, SP)
      /\ Count(LogComment(logout[k]), "_") = Count(items[k].comment.text, "_")
      /\ Count(LogParams(logout[k]), SP) = Count(items[k].params.text, SP)
      /\ Count(LogParams(logout[k]), "_") = Count(items[k].params.text, "_")

C19_Witness ==
  /\ ~broken /\ Len(logout) = 1
  /\ LogTitle(logout[1]) = <<"'", "N", ":", "P", "_", "&", "\\", "'", "'">>
  /\ LogUserText(logout[1]) = <<"'", "u", SP, "w", "'">>
  /\ LogComment(logout[1]) = <<"'", "c", SP, "d", "'">>
  /\ LogParams(logout[1]) = <<"'", "p", SP, "q", "'">>

\* the digits of s, in the order they have in s
RECURSIVE DigitsOf(_)
DigitsOf(s) ==
  IF s = <<>> THEN <<>>
  ELSE (IF Head(s) \in {"0", "1", "2", "3", "4", "5", "6", "7", "8", "9"}
        THEN <<Head(s)>> ELSE <<>>) \o DigitsOf(Tail(s))

\* C20: the log_timestamp of every row is, in quotes, the digits of the
\* timestamp element read for the record, in their order and with nothing
\* else: 2-0T5Z gives 205.
C20_TimestampDigits ==
  [][Emitted =>
       /\ LogTimestamp(NewRow) = Quoted(DigitsOf(timestamp))
       /\ timestamp = Group(xml_file[Max({i \in 1..pos :
              MatchElement(xml_file[i], "<timestamp>", "</timestamp>", FALSE)})])
       /\ ~broken => LogTimestamp(NewRow) = <<"'", "2", "0", "5", "'">>
    ]_vars

C20_Witness ==
  /\ Len(logout) = 2
  /\ Group(xml_file[5]) = <<"1", "9", ":", "3">>
  /\ LogTimestamp(logout[1]) = <<"'", "1", "9", "3", "'">>
  /\ Group(xml_file[Len(xml_file) - 8]) = <<"2", "-", "0", "T", "5", "Z">>
  /\ LogTimestamp(logout[2]) = <<"'", "2", "0", "5", "'">>

\* C21: in the index built from a side file every pair a line carries maps
\* to the page id of the last line that carries it, whatever other
\* namespaces its title is listed under.
C21_LastWins ==
  pc = "titles_built" =>
    \A i \in 1..Len(sql_file) :
      LET e == SideEntry(sql_file[i])
      IN  /\ e.title \in DOMAIN titles_dict
          /\ PyInt(e.ns) \in DOMAIN titles_dict[e.title]
          /\ titles_dict[e.title][PyInt(e.ns)] = PageIdOf(e.title, e.ns)

\* the whitespace-separated tokens of a line
RECURSIVE Words(_)
Words(l) ==
  IF l = <<>> THEN <<>>
  ELSE IF IsSpace(Head(l)) THEN Words(Tail(l))
  ELSE LET n == IF \E i \in 1..Len(l) : IsSpace(l[i])
                 THEN Min({i \in 1..Len(l) : IsSpace(l[i])}) - 1
                 ELSE Len(l)
       IN  <<SubSeq(l, 1, n)>> \o Words(SubSeq(l, n + 1, Len(l)))
\* page id, integer namespace number, title
ThreeTokens(l) ==
  /\ Len(Words(l)) = 3
  /\ \A i \in 1..Len(Words(l)[2]) : Words(l)[2][i] \in Digits

\* C22: the build succeeds exactly when every line of the side file is
\* three whitespace-separated tokens with an integer namespace; when it
\* fails no index is returned.
C22_ThreeTokens ==
  /\ pc = "titles_built" <=> (pc # "titles" /\ \A i \in 1..Len(sql_file) : ThreeTokens(sql_file[i]))
  /\ pc = "error" => titles_dict = <<>>

\* the twelve columns of the logging table, in the order of the statement
TwelveColumns ==
  <<"log_id", "log_type", "log_action", "log_timestamp", "log_user",
    "log_user_text", "log_namespace", "log_title", "log_page", "log_comment",
    "log_params", "log_deleted">>

\* C23: every logging row written names the twelve columns in their fixed
\* order and carries twelve values: the id, the quoted type and action, the
\* quoted digits of the timestamp, the user id and the escaped user name of
\* the record just parsed, the namespace, title and page id its title
\* resolves to, its escaped comment and params, and 0.
C23_TwelveValues ==
  [][Emitted =>
       /\ logout' = Append(logout, NewRow)
       /\ NewRow.table = "logging"
       /\ NewRow.columns = TwelveColumns
       /\ Len(NewRow.values) = 12
       /\ NewRow.values[1] = logid
       /\ NewRow.values[2] = <<"'">> \o type \o <<"'">>
       /\ NewRow.values[3] = <<"'">> \o action \o <<"'">>
       /\ NewRow.values[4] = <<"'">> \o DigitsOf(timestamp) \o <<"'">>
       /\ NewRow.values[5] = userid
       /\ NewRow.values[6] = sql_escape(un_xml_escape(username), FALSE)
       /\ NewRow.values[7] \in {<<"0">>, <<"1", "4">>}
       /\ NewRow.values[8]
            \in {sql_escape(un_xml_escape(logtitle), TRUE),
                 sql_escape(un_xml_escape(SubSeq(logtitle, Find(logtitle, ":") + 1,
                                                 Len(logtitle))), TRUE)}
       /\ NewRow.values[9] \in {<<"NULL">>, <<"7">>, <<"8">>}
       /\ NewRow.values[10] = sql_escape(un_xml_escape(comment), FALSE)
       /\ NewRow.values[11]
            = sql_escape(un_xml_escape(IF pc = "L266" THEN <<>> ELSE params), FALSE)
       /\ NewRow.values[12] = <<"0">>
       /\ InItem =>
            /\ NewRow.values[1] = Cur.logid
            /\ NewRow.values[2] = <<"'", "t", "'">>
            /\ NewRow.values[3] = <<"'", "a", "'">>
            /\ NewRow.values[5] = ItemUserId(Cur)
            /\ NewRow.values[7] = Namespace(Len(logout) + 1)
            /\ NewRow.values[8] = BareTitle(Len(logout) + 1)
    ]_vars

C23_Witness ==
  /\ ~broken /\ Len(logout) = 1
  /\ logout[1].columns = TwelveColumns
  /\ logout[1].values =
       << <<"1">>, <<"'", "t", "'">>, <<"'", "a", "'">>, <<"'", "2", "0", "5", "'">>,
          <<"2">>, <<"'", "u", "'">>, <<"0">>, <<"'", "P", "'">>, <<"7">>,
          <<"'", "c", "'">>, <<"'", "p", "'">>, <<"0">> >>

\* the entry whose line is the i-th of the output: the wiki's i-th
Written(i) == extract_items_from_xml(wiki)[i]
\* the title of an entry as -l asks for it
Linked(e) == [e EXCEPT ![1] = <<"[[">> \o e[1] \o <<"]]">>]

\* C24: under sql_escaped every line written by get_all_entries holds the
\* entry's fields SQL-escaped in single quotes, and under linked the title
\* stands in [[ ]].
C24_FlagsHonoured ==
  \A i \in 1..Len(output) :
    LET e == IF linked THEN Linked(Written(i)) ELSE Written(i)
    IN  /\ sql_escaped =>
             output[i] = Join([a \in 1..Len(e) |-> Entries_sql_escape(e[a])]) \o <<NL>>
        /\ (linked /\ ~sql_escaped) => output[i] = Join(e) \o <<NL>>

\* C25: get_all_entries does not complete normally once a request of the run
\* has failed (an exception, a status other than 200 that is no lag, or an
\* API error other than maxlag).
C25_FailureRaises == pc = "done" => ~failed

\* C26: write_sql terminates on every finite input: while the run has
\* neither completed nor raised, it can take a step that changes its state,
\* also when the input ends inside a <comment> or <params> element.
C26_Terminates == pc \in {"done", "error"} \/ ENABLED <<Next>>_vars

\* C27: when the run has ended, cleanly or with an error, none of the
\* handles write_sql opened is still open.
C27_HandlesReleased == pc \in {"done", "error"} => fds = {}

\* a line that closes the site-info header: </siteinfo> after blanks only
HeaderEnd(l) ==
  \E i \in 1..Len(l) : l[i] = "</siteinfo>" /\ \A j \in 1..(i - 1) : IsSpace(l[j])

\* C28: while the header is being skipped no line read so far closes it and
\* nothing has been written; a line that closes it is consumed and record
\* parsing starts with the line after it, any other line is consumed and
\* skipping goes on; at the end of the input the run fails with
\* WikiContentErr and both outputs are empty.  No record is parsed before a
\* closing line has been read.
C28_HeaderSkipped ==
  [][/\ pc = "header" =>
          /\ logout = <<>> /\ userout = <<>>
          /\ \A i \in 1..pos : ~HeaderEnd(xml_file[i])
          /\ (NextLine # EOF /\ HeaderEnd(NextLine)) =>
               /\ pc' = "L180" /\ pos' = pos + 1
               /\ pos' = Min({i \in 1..Len(xml_file) : HeaderEnd(xml_file[i])})
          /\ (NextLine # EOF /\ ~HeaderEnd(NextLine)) =>
               pc' = "header" /\ pos' = pos + 1
          /\ NextLine = EOF =>
               /\ pc' = "error"
               /\ err'.type = "WikiContentErr"
               /\ err'.expected = "mediawiki/siteinfo header"
               /\ logout' = <<>> /\ userout' = <<>>
          /\ out' = out \/ pc' = "error"
     /\ pc' \in ParserStates => \E i \in 1..pos : HeaderEnd(xml_file[i])
    ]_vars

C28_Witness ==
  /\ pc = "error" /\ err.expected = "mediawiki/siteinfo header"
  /\ Len(xml_file) > 2 /\ pos = Len(xml_file)
  /\ \A i \in 1..Len(xml_file) : ~HeaderEnd(xml_file[i])
  /\ logout = <<>> /\ userout = <<>>

\* the ids of the user rows written so far, as user_dict holds them
RowIds(rows) == {PyStr(UserId(rows[j])) : j \in 1..Len(rows)}

\* C29: in a run with a user output file user_dict never loses a key; after
\* every step it is its initial content, the key 1, together with the ids
\* of the user rows written so far; it changes on exactly the steps that
\* write a user row, and then by the id of that row alone.
C29_SeenSet ==
  [][user_out_file =>
       /\ user_dict \subseteq user_dict'
       /\ user_dict' = {PyInt(<<"1">>)} \cup RowIds(userout')
       /\ pc # "start" =>
            /\ (user_dict' # user_dict) <=> (Len(userout') = Len(userout) + 1)
            /\ Len(userout') \in {Len(userout), Len(userout) + 1}
            /\ Len(userout') = Len(userout) + 1 =>
                 /\ userout' = Append(userout, userout'[Len(userout')])
                 /\ user_dict' \ user_dict = {PyStr(UserId(userout'[Len(userout')]))}
                 /\ user_dict' \ user_dict = {PyStr(userid)}
    ]_vars

C29_Witness ==
  /\ user_out_file /\ pc = "done"
  /\ Len(userout) = 2 /\ Len(logout) = 2
  /\ user_dict = {PyInt(<<"1">>), PyStr(UserId(userout[1])), PyStr(UserId(userout[2]))}
  /\ Cardinality(user_dict) = 3

\* the step that completes a record: </logitem> is read where it is expected
Completes ==
  /\ pc \in {"L266", "L271", "L284"}
  /\ MatchTag(NextLine, "</logitem>")
  /\ pc' = "L180"

\* C30: a step that ends the run with an error leaves logout, userout and
\* user_dict as they were; rows are written and user ids entered only by
\* the step that reads the </logitem> of a record, so that when a record
\* fails the output holds the twelve-value statements of the records
\* completed before it and nothing else.
C30_NoPartialOutput ==
  [][/\ pc' = "error" =>
          /\ logout' = logout /\ userout' = userout /\ user_dict' = user_dict
          /\ \A k \in 1..Len(logout') :
               /\ logout'[k].columns = TwelveColumns
               /\ Len(logout'[k].values) = 12
          /\ \A k \in 1..Len(userout') :
               Len(userout'[k].values) = Len(userout'[k].columns)
          /\ (err'.type = "WikiContentErr" /\ pc \in ParserStates) =>
               Len(logout') = Cardinality({i \in 1..pos :
                                MatchTag(xml_file[i], "</logitem>")})
     /\ (logout' # logout \/ userout' # userout) => Completes
     /\ (user_dict' # user_dict /\ pc # "start") => Completes
    ]_vars

C30_Witness ==
  /\ pc = "error" /\ err.type = "WikiContentErr"
  /\ err.expected \notin {"", "<logitem>", "mediawiki/siteinfo header"}
  /\ Len(logout) = 1 /\ Len(logout[1].values) = 12
  /\ user_out_file /\ Len(userout) = 1

\* C31: without a user output file no user row is ever written, no handle
\* for one is opened, and user_dict stays as write_sql set it up; with or
\* without the file, the step that completes a record appends the same
\* logging row, made from the record's fields alone.
C31_NoUserOutput ==
  [][/\ ~user_out_file =>
          /\ userout' = <<>>
          /\ "userout_fd" \notin fds'
          /\ user_dict' = {PyInt(<<"1">>)}
          /\ pc # "start" => user_dict' = user_dict
     /\ Completes =>
          /\ logout' = Append(logout,
                              LoggingRow(comment, IF pc = "L266" THEN <<>> ELSE params,
                                         Resolve(logtitle)))
     /\ ~Completes => logout' = logout
    ]_vars

C31_Witness ==
  /\ ~user_out_file /\ pc = "done"
  /\ Len(logout) = 2 /\ userout = <<>>
  /\ LogUser(logout[1]) # LogUser(logout[2])
  /\ LogUser(logout[1]) # <<"0">>
  /\ user_dict = {PyInt(<<"1">>)}

\* C32: a call of write_sql that follows a completed call on the same
\* object and the same dump starts with user_dict = {1}, and when it has
\* completed the user file holds the rows the call before it wrote.
C32_FreshSeenSet ==
  /\ (runs > 1 /\ pc = "header" /\ pos = 0) => user_dict = {PyInt(<<"1">>)}
  /\ (runs > 1 /\ pc = "done") => userout = prev_userout

C32_Witness ==
  /\ runs = 2 /\ pc = "done" /\ user_out_file
  /\ Len(userout) = 2 /\ userout = prev_userout

\* C33: get_batch_page_content raises WikiRetrieveErr only when the answer
\* to its last request was a lagged one; once a request has been answered
\* with contents and without lag, the contents are returned.
C33_RaisesOnlyWhenLagged ==
  (pc = "error" /\ requests > 0 /\ ~failed) => lagged

Between(c) ==
  LET i == Min({k \in 1..Len(c) :
                  k + 11 <= Len(c) /\ SubSeq(c, k, k + 11) = SITEINFO_END})
  IN  SubSeq(c, i + 12, Len(c) - 13)
HasSiteinfoEnd(c) ==
  \E k \in 1..Len(c) : k + 11 <= Len(c) /\ SubSeq(c, k, k + 11) = SITEINFO_END
HasMediawikiEnd(c) ==
  Len(c) >= 13 /\ SubSeq(c, Len(c) - 12, Len(c)) = MEDIAWIKI_END

\* C35: strip_site_header_and_footer raises WikiRetrieveErr when the content
\* has no </siteinfo> line or does not end with the </mediawiki> line, and
\* otherwise returns the text between the end of the first </siteinfo> line
\* and the start of the final </mediawiki> line.
C35_StripOrRaise ==
  /\ pc = "error" =>
       (~HasSiteinfoEnd(contents) \/ ~HasMediawikiEnd(contents))
  /\ pc = "stripped" =>
       /\ HasSiteinfoEnd(contents) /\ HasMediawikiEnd(contents)
       /\ stripped = Between(contents)

\* the parts of a content file: up to its first </siteinfo> line, its last
\* line, and what lies between
HeaderLen(f) == Min({k \in 1..Len(f) : HeaderEnd(f[k])})
HeaderOf(f) == SubSeq(f, 1, HeaderLen(f))
BodyOf(f) == SubSeq(f, HeaderLen(f) + 1, Len(f) - 1)
FooterOf(f) == f[Len(f)]
RECURSIVE Bodies(_)
Bodies(fs) == IF fs = <<>> THEN <<>> ELSE BodyOf(Head(fs)) \o Bodies(Tail(fs))

\* C36: when combine_xml has completed, the output is the header of the
\* first file, the bodies of all files in list order and the footer of the
\* last file; for one file it is that file.
C36_Combined ==
  pc = "done" =>
    /\ combined = HeaderOf(path_list[1]) \o Bodies(path_list)
                    \o <<FooterOf(path_list[Len(path_list)])>>
    /\ Len(path_list) = 1 => combined = path_list[1]
    /\ Cardinality({k \in 1..Len(combined) :
                      MatchTag(combined[k], "</mediawiki>")}) = 1

C36_Witness ==
  /\ pc = "done" /\ Len(path_list) = 2
  /\ HeaderOf(path_list[1]) # HeaderOf(path_list[2])
  /\ FooterOf(path_list[1]) # FooterOf(path_list[2])
  /\ BodyOf(path_list[1]) # <<>> /\ BodyOf(path_list[2]) # <<>>
  /\ combined = <<path_list[1][1], path_list[1][2], path_list[1][3],
                  path_list[2][4], path_list[2][5]>>

\* the namespace a title of the list lies in, and the title without the
\* namespace name: an unknown word before the colon is part of a
\* main-namespace title
TitleNs(t) ==
  IF HasColon(t) /\ BeforeColon(t) \in DOMAIN ns_dict_by_string
  THEN ns_dict_by_string[BeforeColon(t)] ELSE <<"0">>
ListedTitle(t) ==
  IF HasColon(t) /\ BeforeColon(t) \in DOMAIN ns_dict_by_string
  THEN AfterColon(t) ELSE t
IsListed(t) == \E k \in 1..Len(title_list) : title_list[k] \in {t, ListedTitle(t)}

\* C37: when add_related_titles_from_file has completed, every title of the
\* file whose namespace is in ns_list is in the title list and in the dict
\* under that namespace; with "0" in ns_list that includes a title with a
\* colon after a word that is no namespace name.
C37_WantedTitlesAdded ==
  pc = "done" /\ related_file # <<>> =>
    \A k \in 1..Len(related_file) :
      LET t == StripNL(related_file[k])
      IN  TitleNs(t) \in ns_list =>
            /\ IsListed(t)
            /\ ListedTitle(t) \in DOMAIN title_dict
            /\ TitleNs(t) \in title_dict[ListedTitle(t)]

\* the statement of C38 as the specification has it: a title escaped by
\* Entries.sql_escape and unescaped by Content.unsql_escape is the title
C38_RoundTrip == pc = "unsql_escape" => codec_out = codec_in

\* C38: Content.unsql_escape applied to Entries.sql_escape(t) returns t with
\* every underscore turned into a space, whatever mix of spaces,
\* underscores, quotes and backslashes t holds; it returns t itself when t
\* holds no underscore.
C38_RoundTripUpToUnderscores ==
  pc = "unsql_escape" =>
    /\ Len(codec_out) = Len(codec_in)
    /\ \A i \in 1..Len(codec_in) :
         codec_out[i] = (IF codec_in[i] = "_" THEN SP ELSE codec_in[i])
    /\ (\A i \in 1..Len(codec_in) : codec_in[i] # "_") => codec_out = codec_in

C38_Witness ==
  /\ pc = "unsql_escape"
  /\ codec_in = <<"'", "_", "\\">>
  /\ codec_out = <<"'", SP, "\\">>

\* C39: Entries.sql_escape returns what LoggingXml.sql_escape returns with
\* the underscore flag set, Entries.desanitize what LoggingXml.un_xml_escape
\* returns, and so a title the retriever writes SQL-escaped is the key the
\* transcoder computes for that title.
C39_CodecsAgree ==
  /\ pc = "Entries.sql_escape" => codec_out = sql_escape(codec_in, TRUE)
  /\ pc = "desanitize" => codec_out = un_xml_escape(codec_in)
  /\ pc = "Entries.sql_escape(desanitize)" =>
       codec_out = sql_escape(un_xml_escape(codec_in), TRUE)

C39_Witness ==
  /\ pc = "Entries.sql_escape(desanitize)"
  /\ codec_in = <<"&", "amp;", "lt;">>
  /\ codec_out = <<"'", "&", "lt;", "'">>
====
